---- MODULE Spec2Model ----
\* Model of twitter_bot/rate_limiter.py (class RateLimiter): the rolling action
\* history, the quota checks of can_perform_action, the error cooldown, and
\* the persistence of the action log (save at destruction / every 10th length,
\* load at construction).
\*
\* Time is the wall clock in whole seconds; a datetime is the number of seconds
\* since midnight of day 0, so that  hour = (t \div 3600) % 24.
EXTENDS Integers, Sequences, FiniteSets, TLC

VARIABLES
    now,                 \* datetime.now(): the wall clock, in seconds
    alive,               \* TRUE while a RateLimiter object exists
    limits,              \* self.max_*_per_hour / _per_day, read from the configuration
    actions_history,     \* self.actions_history: deque of action records
    history_maxlen,      \* self.actions_history.maxlen: the size bound of the deque
    consecutive_errors,  \* self.consecutive_errors
    last_error_time,     \* self.last_error_time (None or a datetime)
    actions_log_file,    \* the file self.actions_log_file on disk
    daily_pattern,       \* self.daily_pattern: the activity multiplier of each hour
    burst_mode,          \* self.burst_mode
    burst_threads,       \* the timer threads started by enable_burst_mode, in order
    bot,                 \* TwitterBot: where its cycle stands, and the locals of the cycle
    last_call            \* the step that produced this state and what it returned

vars == <<now, alive, limits, actions_history, history_maxlen, consecutive_errors,
          last_error_time, actions_log_file, daily_pattern, burst_mode, burst_threads,
          bot, last_call>>

-----------------------------------------------------------------------------
\* Program constants.

\* timedelta(hours=1), in seconds
SecondsPerHour == 3600
\* timedelta(days=1), in seconds
SecondsPerDay == 86400
\* cooldown_seconds = 30 * 60
cooldown_seconds == 1800
\* if self.consecutive_errors >= 5
error_threshold == 5
\* timedelta(days=7): the retention window applied at load, in days
retention_days == 7
\* if len(self.actions_history) % 10 == 0
save_period == 10

\* last_error_time = None
None == -1

\* The action types: three tracked types, and two that have no cap of their
\* own ('search' of the docstring, 'engagement' recorded by the orchestrator).
ActionTypes == {"like", "reply", "retweet", "search", "engagement"}
TrackedTypes == {"like", "reply", "retweet"}
\* action_type=None of _get_actions_in_timeframe
AnyType == "any"

-----------------------------------------------------------------------------
\* Configuration and bounds of the model.

\* deque(maxlen=10000), scaled down
maxlen == 3
\* deque(maxlen=10000), scaled down to one save period for the limiter whose
\* periodic saves are followed: like 10000, a multiple of the save period
long_maxlen == save_period
\* rate_limits of the configuration, for a limiter driven to its caps
max_actions_per_day == 3
max_actions_per_hour == 2
max_likes_per_hour == 1
max_replies_per_hour == 1
max_retweets_per_hour == 1
\* the failure counter is not explored beyond this value
MaxErrors == 5
\* the length of the log a limiter whose periodic saves are followed starts
\* from
loaded_len == 7
\* the number of times burst mode is switched on
MaxBursts == 2
\* the clock reading at which the model starts: day 10, 08:00:00
StartDay == 10
StartHour == 8

\* the rate limits of a limiter driven to its caps
TightLimits ==
    [max_actions_per_hour |-> max_actions_per_hour,
     max_actions_per_day |-> max_actions_per_day,
     max_likes_per_hour |-> max_likes_per_hour,
     max_replies_per_hour |-> max_replies_per_hour,
     max_retweets_per_hour |-> max_retweets_per_hour]

\* rate limits whose global caps are the size of the history, so that a
\* limiter in its error cooldown can be under them
WideLimits ==
    [max_actions_per_hour |-> maxlen,
     max_actions_per_day |-> maxlen,
     max_likes_per_hour |-> max_likes_per_hour,
     max_replies_per_hour |-> max_replies_per_hour,
     max_retweets_per_hour |-> max_retweets_per_hour]

\* rate limits of a configuration that switches retweets off with a cap of 0
ZeroRetweetLimits == [WideLimits EXCEPT !.max_retweets_per_hour = 0]

\* rate limits with an hourly cap of 5, of which 80% and 20% are whole
\* numbers of actions
PacingLimits ==
    [max_actions_per_hour |-> 5,
     max_actions_per_day |-> 100,
     max_likes_per_hour |-> 8,
     max_replies_per_hour |-> 3,
     max_retweets_per_hour |-> 2]

\* deque(maxlen=10000), scaled down to hold the actions of PacingLimits' hour
pacing_maxlen == maxlen + 2

T0 == StartDay * SecondsPerDay + StartHour * SecondsPerHour

\* duration_minutes: int = 30
default_duration_minutes == 30

\* duration_minutes of enable_burst_mode: the default, and a shorter burst
BurstDurations == {default_duration_minutes, 10}

\* Clock readings for the quota windows: the start and a second later, the
\* instants one hour and one day after the start (where a record of the start
\* is exactly as old as the window, and one of a second later is a second
\* younger), and 12:00, which is in a quiet period.
QuotaInstants ==
    {T0 + o : o \in {0, 1, SecondsPerHour, 4 * SecondsPerHour, SecondsPerDay}}

\* Clock readings for the error cooldown: the start, the instants 30 minutes
\* and 1 second before the start's records leave the daily window, the instant
\* they leave it, and one second later.
CooldownInstants ==
    {T0 + o : o \in {0, SecondsPerDay - cooldown_seconds, SecondsPerDay - 1,
                     SecondsPerDay, SecondsPerDay + 1}}

\* Clock readings for the retention window.
StoreInstants ==
    {T0 + o : o \in {0, 1, retention_days * SecondsPerDay,
                     retention_days * SecondsPerDay + 1}}

\* What the orchestrator records (twitter_bot.py, _engage_with_selected_tweets):
\* a success of a tracked type, or a failed 'engagement'.
OrchestratorRecords ==
    {<<"like", TRUE>>, <<"reply", TRUE>>, <<"retweet", TRUE>>, <<"engagement", FALSE>>}

\* Records of one tracked and one untracked type, each succeeding or failing.
MixedRecords == {"like", "search"} \X BOOLEAN

\* A successful record of a tracked type and a failed one of an untracked type.
StoreRecords == {<<"like", TRUE>>, <<"search", FALSE>>}

-----------------------------------------------------------------------------
\* Timestamps on disk.

\* datetime.isoformat(): the textual form, a date part and a time-of-day part
isoformat(t) == [kind |-> "iso", date |-> t \div SecondsPerDay, time |-> t % SecondsPerDay]

\* parse_timestamp: datetime.fromisoformat, None when parsing fails
parse_timestamp(s) ==
    IF s.kind = "iso" /\ s.time >= 0 /\ s.time < SecondsPerDay
    THEN s.date * SecondsPerDay + s.time
    ELSE None

-----------------------------------------------------------------------------
\* The history: a deque of records [type, success, timestamp].

\* Variant of deque.append: the records older than the retention window at the
\* time of the new record are dropped before it is appended
deque_append_with_cleanup(h, a) ==
    LET Fresh(b) == b.timestamp >= a.timestamp - retention_days * SecondsPerDay
        kept == SelectSeq(h, Fresh)
    IN  IF Len(kept) >= history_maxlen THEN Append(Tail(kept), a) ELSE Append(kept, a)

\* Variant of deque.append: a full deque drops its newest element to make
\* room
deque_append_drop_newest(h, a) ==
    IF Len(h) >= history_maxlen
    THEN Append(SubSeq(h, 1, Len(h) - 1), a)
    ELSE Append(h, a)

\* Variant of deque.append: the record is put in front, as appendleft does
deque_append_left(h, a) ==
    IF Len(h) >= history_maxlen
    THEN <<a>> \o SubSeq(h, 1, Len(h) - 1)
    ELSE <<a>> \o h

\* deque.append on a deque with maxlen: a full deque drops its oldest element
deque_append(h, a) ==
    IF Len(h) >= history_maxlen THEN Append(Tail(h), a) ELSE Append(h, a)

\* deque(iterable, maxlen): only the last maxlen elements are kept
RECURSIVE deque_of(_)
deque_of(s) == IF Len(s) > history_maxlen THEN deque_of(Tail(s)) ELSE s

\* Variant of _get_actions_in_timeframe: the comparison with the cutoff is >=,
\* so a record exactly at the cutoff is counted
RECURSIVE get_actions_in_timeframe_inclusive(_, _, _, _)
get_actions_in_timeframe_inclusive(h, t, hours, action_type) ==
    IF h = <<>> THEN 0
    ELSE LET cutoff == t - hours * SecondsPerHour
             action == Head(h)
             hit == /\ action.timestamp >= cutoff
                    /\ (action_type = AnyType \/ action.type = action_type)
         IN  (IF hit THEN 1 ELSE 0)
             + get_actions_in_timeframe_inclusive(Tail(h), t, hours, action_type)

\* _get_actions_in_timeframe: the loop over the history, counting the records
\* newer than the cutoff (and of the given type, unless it is None)
RECURSIVE get_actions_in_timeframe(_, _, _, _)
get_actions_in_timeframe(h, t, hours, action_type) ==
    IF h = <<>> THEN 0
    ELSE LET cutoff == t - hours * SecondsPerHour
             action == Head(h)
             hit == /\ action.timestamp > cutoff
                    /\ (action_type = AnyType \/ action.type = action_type)
         IN  (IF hit THEN 1 ELSE 0)
             + get_actions_in_timeframe(Tail(h), t, hours, action_type)

-----------------------------------------------------------------------------
\* Quiet periods.

\* self.quiet_periods, set by _initialize_patterns
quiet_periods == {<<23, 6>>, <<12, 13>>}

\* datetime.now().hour
hour_of(t) == (t \div SecondsPerHour) % 24

\* Variant of the test of one period: the end hour is not part of the period
in_period_before_end(p, current_hour) ==
    IF p[1] > p[2]
    THEN current_hour >= p[1] \/ current_hour < p[2]
    ELSE p[1] <= current_hour /\ current_hour < p[2]

\* the test can_perform_action and _is_in_quiet_period apply to one period
in_period(p, current_hour) ==
    IF p[1] > p[2]
    THEN current_hour >= p[1] \/ current_hour <= p[2]
    ELSE p[1] <= current_hour /\ current_hour <= p[2]

\* _is_in_quiet_period
is_in_quiet_period(t) == \E p \in quiet_periods : in_period(p, hour_of(t))

-----------------------------------------------------------------------------
\* can_perform_action.

\* Variant of the cooldown test: the comparison with cooldown_seconds is <=
in_error_cooldown_inclusive(errors, error_time, t) ==
    /\ errors >= error_threshold
    /\ error_time # None
    /\ (t - error_time) <= cooldown_seconds

\* the cooldown test: five or more consecutive errors, the last of them less
\* than cooldown_seconds ago
in_error_cooldown(errors, error_time, t) ==
    /\ errors >= error_threshold
    /\ error_time # None
    /\ (t - error_time) < cooldown_seconds

\* Variant of the counter after a can_perform_action call: reset whenever the
\* call does not return from the cooldown test
errors_after_check_eager(errors, error_time, t) ==
    IF in_error_cooldown(errors, error_time, t) THEN errors ELSE 0

\* consecutive_errors after a can_perform_action call: reset when the counter
\* had reached the threshold and the call did not return from the cooldown test
errors_after_check(errors, error_time, t) ==
    IF errors >= error_threshold /\ ~in_error_cooldown(errors, error_time, t)
    THEN 0
    ELSE errors

\* the hourly cap of a tracked type
type_limit(action_type) ==
    CASE action_type = "like" -> limits.max_likes_per_hour
      [] action_type = "reply" -> limits.max_replies_per_hour
      [] action_type = "retweet" -> limits.max_retweets_per_hour

\* Variant of the per-type check: the cap is reached only when exceeded
type_limit_exceeded(h, t, action_type) ==
    /\ action_type \in TrackedTypes
    /\ get_actions_in_timeframe(h, t, 1, action_type) > type_limit(action_type)

\* Variant of the per-type check: == instead of >=
type_limit_exact(h, t, action_type) ==
    /\ action_type \in TrackedTypes
    /\ get_actions_in_timeframe(h, t, 1, action_type) = type_limit(action_type)

\* Variant of the per-type check: the like cap is applied to every type
like_limit_reached(h, t, action_type) ==
    get_actions_in_timeframe(h, t, 1, "like") >= limits.max_likes_per_hour

\* the per-type check of can_perform_action (like / reply / retweet branches)
type_limit_reached(h, t, action_type) ==
    /\ action_type \in TrackedTypes
    /\ get_actions_in_timeframe(h, t, 1, action_type) >= type_limit(action_type)

\* Variant of can_perform_action: the daily check is > instead of >=
can_perform_action_daily_exceeded(h, errors, error_time, t, action_type, skip) ==
    IF in_error_cooldown(errors, error_time, t) THEN FALSE
    ELSE IF get_actions_in_timeframe(h, t, 24, AnyType) > limits.max_actions_per_day THEN FALSE
    ELSE IF get_actions_in_timeframe(h, t, 1, AnyType) >= limits.max_actions_per_hour THEN FALSE
    ELSE IF type_limit_reached(h, t, action_type) THEN FALSE
    ELSE IF \E p \in quiet_periods : in_period(p, hour_of(t)) /\ skip THEN FALSE
    ELSE TRUE

\* The value can_perform_action returns. skip is the outcome of the draw
\* random.random() < 0.7 made for the quiet period the hour is in (the two
\* periods share no hour, so a call makes at most one draw).
can_perform_action(h, errors, error_time, t, action_type, skip) ==
    IF in_error_cooldown(errors, error_time, t) THEN FALSE
    ELSE IF get_actions_in_timeframe(h, t, 24, AnyType) >= limits.max_actions_per_day THEN FALSE
    ELSE IF get_actions_in_timeframe(h, t, 1, AnyType) >= limits.max_actions_per_hour THEN FALSE
    ELSE IF type_limit_reached(h, t, action_type) THEN FALSE
    ELSE IF \E p \in quiet_periods : in_period(p, hour_of(t)) /\ skip THEN FALSE
    ELSE TRUE

\* Variant of the counter update: a success leaves the counter as it is
errors_after_record_sticky(errors, success) == IF success THEN errors ELSE errors + 1

\* record_action, "Handle errors": the counter after the call
errors_after_record(errors, success) == IF success THEN 0 ELSE errors + 1

\* Variant of the update of last_error_time: a failure does not set it
error_time_after_record_unset(success, t) == None

\* record_action, "Handle errors": last_error_time after a call made at time t
error_time_after_record(success, t) == IF success THEN None ELSE t

-----------------------------------------------------------------------------
\* Pacing: the activity pattern and the delay ranges. The code computes in
\* floats; the model computes the same products exactly, in the units stated
\* with each definition.

\* a factor 1.0 of the jitter, which is in hundredths
JitterScale == 10 * 10

\* values of the jitter factor 0.8 + random.random() * 0.4 of
\* _generate_daily_pattern, in hundredths: the least, 1.0, and nearly the
\* greatest
Jitters == {80, JitterScale, 119}

\* _generate_daily_pattern, the if/elif chain: the multiplier of an hour
\* before jitter, in tenths. The test 23 <= hour <= 5 of the fourth branch is
\* false for every hour.
base_multiplier(hour) ==
    IF 6 <= hour /\ hour <= 9 THEN 15
    ELSE IF 12 <= hour /\ hour <= 13 THEN 8
    ELSE IF 17 <= hour /\ hour <= 22 THEN 18
    ELSE IF 23 <= hour /\ hour <= 5 THEN 3
    ELSE 10

\* _generate_daily_pattern with every draw giving the factor jitter: the
\* pattern, in thousandths
generate_daily_pattern(jitter) == [hour \in 0..23 |-> base_multiplier(hour) * jitter]

\* datetime.weekday(): 0 is Monday; day 0 of the clock is a Monday
weekday(t) == (t \div SecondsPerDay) % 7

\* utils.is_weekend
is_weekend(t) == weekday(t) >= 5

\* runtime_config.get('weekend_mode', True)
weekend_mode == TRUE

\* one unit of the activity multiplier: the multiplier is in 1/4000
ActivityUnit == 4 * 1000

\* _get_current_activity_multiplier, in 1/4000: the pattern of the hour, times
\* weekend_reduction (0.5, the default) on a weekend, times 1.5 in burst mode
get_current_activity_multiplier(pattern, burst, t) ==
    LET base_multiplier_ == pattern[(t \div SecondsPerHour) % 24]
        weekend == IF is_weekend(t) /\ weekend_mode THEN 2 ELSE 4
        boost == IF burst THEN 3 ELSE 2
    IN  (base_multiplier_ * weekend * boost) \div 2

\* Variant of the load multiplier: the slow-down applies from 80% of the cap
\* on, the cap's 80% included
load_multiplier_from_80(recent_actions, cap) ==
    IF recent_actions * 10 >= cap * 8 THEN 15
    ELSE IF recent_actions * 10 < cap * 2 THEN 7
    ELSE 10

\* _calculate_dynamic_delay, "Adjust based on recent activity": the multiplier
\* from the actions of the last hour, in tenths
load_multiplier(recent_actions, cap) ==
    IF recent_actions * 10 > cap * 8 THEN 15
    ELSE IF recent_actions * 10 < cap * 2 THEN 7
    ELSE 10

\* one second of a delay of _calculate_dynamic_delay: the delays are in
\* 1/40000 s
DelayUnit == 10 * ActivityUnit

\* behavior.delays.get('between_actions', (60, 600)), in seconds
delay_between_actions == [min |-> 60, max |-> 600]

\* behavior.delays.get('after_error', (900, 1800)), in seconds
delay_after_error == [min |-> 900, max |-> 1800]

Max(a, b) == IF a >= b THEN a ELSE b
Min(a, b) == IF a <= b THEN a ELSE b

\* _calculate_dynamic_delay: the range (min_delay, max_delay), in 1/40000 s
calculate_dynamic_delay(h, cap, pattern, burst, t) ==
    LET multiplier ==
            load_multiplier(get_actions_in_timeframe(h, t, 1, AnyType), cap)
            * (2 * ActivityUnit - get_current_activity_multiplier(pattern, burst, t))
    IN  [min |-> Max(10 * DelayUnit, delay_between_actions.min * multiplier),
         max |-> Min(1800 * DelayUnit, delay_between_actions.max * multiplier)]

\* Variant of the range of wait_after_error: the multiplier grows by 1 with
\* every error
wait_after_error_range_steep(errors) ==
    [min |-> delay_after_error.min * (2 + 2 * errors),
     max |-> delay_after_error.max * (2 + 2 * errors)]

\* wait_after_error: the range the delay is drawn from, multiplier
\* 1.0 + consecutive_errors * 0.5, in half seconds
wait_after_error_range(errors) ==
    [min |-> delay_after_error.min * (2 + errors),
     max |-> delay_after_error.max * (2 + errors)]

-----------------------------------------------------------------------------
\* Persistence.

\* _save_actions_history: the 'actions' list written to the file, one JSON
\* object per record
saved_actions(h) ==
    [i \in DOMAIN h |->
        [json |-> "object", type |-> h[i].type, success |-> h[i].success,
         timestamp |-> isoformat(h[i].timestamp)]]

\* _save_actions_history through save_json_file: the file after a write that
\* succeeds
save_actions_history(h) == [exists |-> TRUE, valid |-> TRUE, actions |-> saved_actions(h)]

\* the file left by a write that began and did not complete: open(file, 'w')
\* has truncated it and json.dump has not written a whole document
TruncatedFile == [exists |-> TRUE, valid |-> FALSE, actions |-> <<>>]

\* the ways a write can fail in save_json_file: open raises and the file is
\* as it was, or json.dump raises after open has truncated it
WriteFailures == {"unwritable", "truncated"}

\* save_json_file returning False: the file after a write that fails
failed_write(file, outcome) == IF outcome = "unwritable" THEN file ELSE TruncatedFile

\* Variant of load_json_file: only a missing file yields the default
load_json_fails_when_missing(file) == ~file.exists

\* load_json_file returning the default: the file is missing or is not valid
\* JSON
load_json_fails(file) == ~file.exists \/ ~file.valid

\* Variant of the first loop of _load_actions_history: the loop ends at the
\* first record that has no timestamp or whose timestamp does not parse
RECURSIVE parsed_actions_until_malformed(_)
parsed_actions_until_malformed(s) ==
    IF s = <<>> THEN <<>>
    ELSE LET action == Head(s)
         IN  IF action.timestamp.kind = "iso"
             THEN <<[type |-> action.type, success |-> action.success,
                     timestamp |-> parse_timestamp(action.timestamp)]>>
                  \o parsed_actions_until_malformed(Tail(s))
             ELSE <<>>

\* action.get('timestamp') of an entry that has no 'timestamp' key
NoTimestamp == [kind |-> "none", date |-> 0, time |-> 0]

\* the first loop of _load_actions_history: the records that have a timestamp
\* and whose timestamp parses, with the timestamp as a datetime, appended to
\* the deque
RECURSIVE parsed_actions(_)
parsed_actions(s) ==
    IF s = <<>> THEN <<>>
    ELSE LET action == Head(s)
             timestamp == IF action.timestamp = NoTimestamp
                          THEN None
                          ELSE parse_timestamp(action.timestamp)
             rest == parsed_actions(Tail(s))
         IN  IF timestamp # None
             THEN <<[type |-> action.type, success |-> action.success,
                     timestamp |-> timestamp]>> \o rest
             ELSE rest

\* the first loop of _load_actions_history calls action.get on every entry: an
\* entry that is not a JSON object raises there
loop_raises(s) == \E i \in DOMAIN s : s[i].json # "object"

\* the entries the first loop has gone through when it ends or raises
RECURSIVE entries_before_raise(_)
entries_before_raise(s) ==
    IF s = <<>> \/ Head(s).json # "object" THEN <<>>
    ELSE <<Head(s)>> \o entries_before_raise(Tail(s))

\* Variant of the clean-up: the comparison with the cutoff is >=, so a record
\* exactly at the cutoff is kept
RECURSIVE newer_than_inclusive(_, _)
newer_than_inclusive(h, cutoff) ==
    IF h = <<>> THEN <<>>
    ELSE IF Head(h).timestamp >= cutoff
         THEN <<Head(h)>> \o newer_than_inclusive(Tail(h), cutoff)
         ELSE newer_than_inclusive(Tail(h), cutoff)

\* the clean-up of _load_actions_history: only the records newer than the
\* cutoff are kept
RECURSIVE newer_than(_, _)
newer_than(h, cutoff) ==
    IF h = <<>> THEN <<>>
    ELSE IF Head(h).timestamp > cutoff
         THEN <<Head(h)>> \o newer_than(Tail(h), cutoff)
         ELSE newer_than(Tail(h), cutoff)

\* _load_actions_history: the history a limiter constructed at time t holds.
\* The whole body is inside try/except: when the first loop raises, the
\* exception is logged and the clean-up is not run, so the history keeps what
\* the loop had appended.
load_actions_history(file, t) ==
    IF load_json_fails(file) \/ file.actions = <<>> THEN <<>>
    ELSE LET appended == deque_of(parsed_actions(entries_before_raise(file.actions)))
         IN  IF loop_raises(file.actions)
             THEN appended
             ELSE deque_of(newer_than(appended, t - retention_days * SecondsPerDay))

NoFile == [exists |-> FALSE, valid |-> FALSE, actions |-> <<>>]

\* An action log this run of the program did not write: entries out of order,
\* one just older than the retention window at the start, one exactly as old,
\* one just younger, a recent one, and one whose timestamp does not parse.
ForeignFile ==
    [exists |-> TRUE, valid |-> TRUE,
     actions |->
        << [json |-> "object", type |-> "like", success |-> FALSE,
            timestamp |-> isoformat(T0 - retention_days * SecondsPerDay - 1)],
           [json |-> "object", type |-> "reply", success |-> FALSE,
            timestamp |-> [kind |-> "text", date |-> 0, time |-> 0]],
           [json |-> "object", type |-> "search", success |-> TRUE,
            timestamp |-> isoformat(T0 - retention_days * SecondsPerDay)],
           [json |-> "object", type |-> "retweet", success |-> TRUE,
            timestamp |-> isoformat(T0 - 1)],
           [json |-> "object", type |-> "like", success |-> TRUE,
            timestamp |-> isoformat(T0 - retention_days * SecondsPerDay + 1)] >>]

\* An action log of k recent records, as a limiter saves it.
RecentFile(k) ==
    [exists |-> TRUE, valid |-> TRUE,
     actions |-> [i \in 1..k |->
                    [json |-> "object", type |-> "like", success |-> TRUE,
                     timestamp |-> isoformat(T0 - 1)]]]

\* An action log whose text is cut in the middle of a record: it holds records
\* but is not valid JSON.
CorruptFile ==
    [exists |-> TRUE, valid |-> FALSE,
     actions |->
        << [json |-> "object", type |-> "like", success |-> TRUE,
            timestamp |-> isoformat(T0 - 1)] >>]

\* Well-formed records of a log: a recent one, one exactly as old as the
\* retention window at the start, and one a second younger than that.
WellFormedRecords ==
    << [json |-> "object", type |-> "like", success |-> TRUE,
        timestamp |-> isoformat(T0 - 1)],
       [json |-> "object", type |-> "search", success |-> FALSE,
        timestamp |-> isoformat(T0 - retention_days * SecondsPerDay)],
       [json |-> "object", type |-> "retweet", success |-> TRUE,
        timestamp |-> isoformat(T0 - retention_days * SecondsPerDay + 1)] >>

\* The timestamps of a malformed record: the key is missing, or the text is
\* not an ISO date.
MalformedTimestamps == {NoTimestamp, [kind |-> "text", date |-> 0, time |-> 0]}

\* An action log with a malformed record at position p among the well-formed
\* ones.
MalformedFile(p, timestamp) ==
    [exists |-> TRUE, valid |-> TRUE,
     actions |->
        SubSeq(WellFormedRecords, 1, p - 1)
        \o <<[json |-> "object", type |-> "reply", success |-> TRUE,
              timestamp |-> timestamp]>>
        \o SubSeq(WellFormedRecords, p, Len(WellFormedRecords))]

MalformedFiles ==
    {MalformedFile(p, timestamp) :
        p \in 1..(Len(WellFormedRecords) + 1), timestamp \in MalformedTimestamps}

\* An action log with an entry that is not a JSON object (a string) between a
\* record older than the retention window and a recent one.
BrokenFile ==
    [exists |-> TRUE, valid |-> TRUE,
     actions |->
        << [json |-> "object", type |-> "like", success |-> FALSE,
            timestamp |-> isoformat(T0 - retention_days * SecondsPerDay - 1)],
           [json |-> "string"],
           [json |-> "object", type |-> "retweet", success |-> TRUE,
            timestamp |-> isoformat(T0 - 1)] >>]

-----------------------------------------------------------------------------
\* get_next_action_time.

\* datetime.now().replace(minute=0, second=0, microsecond=0) + timedelta(hours=1)
next_hour(t) == t - (t % SecondsPerHour) + SecondsPerHour

\* datetime.now().replace(hour=6, minute=0, second=0, microsecond=0), moved to
\* the next day when it is not after now
tomorrow(t) ==
    LET six == t - (t % SecondsPerDay) + 6 * SecondsPerHour
    IN  IF six <= t THEN six + SecondsPerDay ELSE six

\* get_next_action_time after its can_perform_action call has returned
\* allowed: None when allowed, else the time derived from the first limit
\* found blocking
get_next_action_time(h, t, action_type, allowed) ==
    IF allowed THEN None
    ELSE IF get_actions_in_timeframe(h, t, 24, AnyType) >= limits.max_actions_per_day
         THEN tomorrow(t)
    ELSE IF get_actions_in_timeframe(h, t, 1, AnyType) >= limits.max_actions_per_hour
         THEN next_hour(t)
    ELSE IF /\ action_type = "like"
            /\ get_actions_in_timeframe(h, t, 1, "like") >= limits.max_likes_per_hour
         THEN next_hour(t)
    ELSE t + 30 * 60

-----------------------------------------------------------------------------
\* Status and statistics.

\* Variant of the 'remaining' entry: the difference limit - used as it is
remaining_unclamped(limit, used) == limit - used

\* the 'remaining' entry of a quota: max(0, limit - used)
remaining(limit, used) == Max(0, limit - used)

\* one quota entry of get_rate_limit_status; the percentage
\* (used / limit) * 100 is kept as the fraction num / den
quota_status(used, limit) ==
    [used |-> used,
     limit |-> limit,
     remaining |-> remaining(limit, used),
     percentage |-> [num |-> used * 100, den |-> limit]]

\* the keys of the quota entries of get_rate_limit_status
QuotaKeys ==
    {"hourly_actions", "daily_actions", "hourly_likes", "hourly_replies", "hourly_retweets"}

\* the limit a quota entry is computed from
limit_of(key) ==
    CASE key = "hourly_actions" -> limits.max_actions_per_hour
      [] key = "daily_actions" -> limits.max_actions_per_day
      [] key = "hourly_likes" -> limits.max_likes_per_hour
      [] key = "hourly_replies" -> limits.max_replies_per_hour
      [] key = "hourly_retweets" -> limits.max_retweets_per_hour

\* the count a quota entry is computed from
used_of(h, t, key) ==
    CASE key = "hourly_actions" -> get_actions_in_timeframe(h, t, 1, AnyType)
      [] key = "daily_actions" -> get_actions_in_timeframe(h, t, 24, AnyType)
      [] key = "hourly_likes" -> get_actions_in_timeframe(h, t, 1, "like")
      [] key = "hourly_replies" -> get_actions_in_timeframe(h, t, 1, "reply")
      [] key = "hourly_retweets" -> get_actions_in_timeframe(h, t, 1, "retweet")

\* get_rate_limit_status: the dictionary returned. A limit of 0 makes the
\* division of a percentage raise; the except clause then returns {}, here the
\* record whose field empty is TRUE.
get_rate_limit_status(h, errors, error_time, pattern, burst, t) ==
    IF \E key \in QuotaKeys : limit_of(key) = 0
    THEN [empty |-> TRUE]
    ELSE [empty |-> FALSE,
          quotas |-> [key \in QuotaKeys |-> quota_status(used_of(h, t, key), limit_of(key))],
          consecutive_errors |-> errors,
          last_error_time |-> IF error_time # None THEN isoformat(error_time) ELSE NoTimestamp,
          activity_multiplier |-> get_current_activity_multiplier(pattern, burst, t),
          in_quiet_period |-> is_in_quiet_period(t),
          weekend_mode |-> is_weekend(t) /\ weekend_mode]

\* get_statistics, "Count by action type": the entry of one type
type_statistics(h, action_type) ==
    LET OfType(a) == a.type = action_type
        Succeeded(a) == a.type = action_type /\ a.success
        Failed(a) == a.type = action_type /\ ~a.success
    IN  [total |-> Len(SelectSeq(h, OfType)),
         successful |-> Len(SelectSeq(h, Succeeded)),
         failed |-> Len(SelectSeq(h, Failed))]

\* get_statistics: the dictionary returned; the success rate
\* (successful_actions / len) * 100 is kept as the fraction num / den, and is
\* 0.0 for an empty history. The entries session_duration and
\* average_actions_per_hour, computed from the clock and the time of
\* construction alone, are not part of the record.
get_statistics(h, errors, error_time, pattern, burst, t) ==
    LET Succeeded(a) == a.success
    IN  [total_actions |-> Len(h),
         actions_last_hour |-> get_actions_in_timeframe(h, t, 1, AnyType),
         actions_last_day |-> get_actions_in_timeframe(h, t, 24, AnyType),
         actions_by_type |->
             [action_type \in {h[i].type : i \in DOMAIN h} |-> type_statistics(h, action_type)],
         success_rate |->
             IF Len(h) > 0
             THEN [num |-> Len(SelectSeq(h, Succeeded)) * 100, den |-> Len(h)]
             ELSE [num |-> 0, den |-> 1],
         rate_limit_status |-> get_rate_limit_status(h, errors, error_time, pattern, burst, t)]

-----------------------------------------------------------------------------
\* State machine.

Call(op, type, success, ret) == [op |-> op, type |-> type, success |-> success, ret |-> ret]

\* TwitterBot in its cycle: the step it is at, the selected tweets still to
\* engage with, whether an engagement of the cycle has succeeded
\* (results['successful_engagements'] > 0), and the types the limiter allowed
\* in the check before the engagement at hand
BotAt(pc, tweets, succeeded, allowed) ==
    [pc |-> pc, tweets |-> tweets, succeeded |-> succeeded, allowed |-> allowed]

\* RateLimiter.__init__ with the given rate limits and size bound of the
\* history, on a machine whose action log is the given file, the draws of
\* _generate_daily_pattern giving the factor jitter
Constructed(rate_limits, file, bound, jitter) ==
    /\ now = T0
    /\ alive = TRUE
    /\ limits = rate_limits
    /\ history_maxlen = bound
    /\ actions_log_file = file
    /\ actions_history = load_actions_history(file, T0)
    /\ consecutive_errors = 0
    /\ last_error_time = None
    /\ daily_pattern = generate_daily_pattern(jitter)
    /\ burst_mode = FALSE
    /\ burst_threads = <<>>
    /\ bot = BotAt("health", 0, FALSE, {})
    /\ last_call = Call("init", AnyType, TRUE, TRUE)

\* RateLimiter.__init__ where the draws of the pattern are not followed: the
\* pattern is the table without jitter
StartBounded(rate_limits, file, bound) == Constructed(rate_limits, file, bound, JitterScale)

\* RateLimiter.__init__ with the given rate limits, on a machine whose action
\* log is the given file
Start(rate_limits, file) == StartBounded(rate_limits, file, maxlen)

Init == Start(TightLimits, NoFile)

InitWide == Start(WideLimits, NoFile)

\* the limiter starts on a machine with no action log, or with one of the logs
\* above
InitStore == \E file \in {NoFile, ForeignFile, BrokenFile} : Start(TightLimits, file)

\* the wall clock advances to a later instant
Tick(instants) ==
    /\ \E t \in instants : t > now /\ now' = t
    /\ last_call' = Call("tick", AnyType, TRUE, TRUE)
    /\ UNCHANGED <<alive, limits, actions_history, history_maxlen, consecutive_errors,
                   last_error_time, actions_log_file,
                   daily_pattern, burst_mode, burst_threads, bot>>

\* RateLimiter.can_perform_action(action_type)
CanPerformAction(action_type, skip) ==
    /\ alive
    /\ consecutive_errors' = errors_after_check(consecutive_errors, last_error_time, now)
    /\ last_call' = Call("can_perform_action", action_type, TRUE,
                         can_perform_action(actions_history, consecutive_errors,
                                            last_error_time, now, action_type, skip))
    /\ UNCHANGED <<now, alive, limits, actions_history, history_maxlen, last_error_time,
                   actions_log_file,
                   daily_pattern, burst_mode, burst_threads, bot>>

\* RateLimiter.record_action(action_type, success)
RecordAction(action_type, success) ==
    /\ alive
    /\ success \/ consecutive_errors < MaxErrors
    /\ actions_history' =
          deque_append(actions_history,
                       [type |-> action_type, success |-> success, timestamp |-> now])
    /\ consecutive_errors' = errors_after_record(consecutive_errors, success)
    /\ last_error_time' = error_time_after_record(success, now)
    /\ actions_log_file' =
          IF Len(actions_history') % save_period = 0
          THEN save_actions_history(actions_history')
          ELSE actions_log_file
    /\ last_call' = Call("record_action", action_type, success, TRUE)
    /\ UNCHANGED <<now, alive, limits, history_maxlen,
                   daily_pattern, burst_mode, burst_threads, bot>>

\* Variant of record_action with a failing write: the exception of the save
\* leaves the call before the error counters are updated
RecordActionAborted(action_type, success, outcome) ==
    /\ alive
    /\ success \/ consecutive_errors < MaxErrors
    /\ actions_history' =
          deque_append(actions_history,
                       [type |-> action_type, success |-> success, timestamp |-> now])
    /\ Len(actions_history') % save_period = 0
    /\ actions_log_file' = failed_write(actions_log_file, outcome)
    /\ last_call' = Call("record_action", action_type, success, TRUE)
    /\ UNCHANGED <<now, alive, limits, history_maxlen, consecutive_errors, last_error_time,
                   daily_pattern, burst_mode, burst_threads, bot>>

\* RateLimiter.record_action(action_type, success) when the periodic save is
\* due and the write fails: save_json_file catches the exception and returns
\* False, _save_actions_history and record_action return normally
RecordActionUnsaved(action_type, success, outcome) ==
    /\ alive
    /\ success \/ consecutive_errors < MaxErrors
    /\ actions_history' =
          deque_append(actions_history,
                       [type |-> action_type, success |-> success, timestamp |-> now])
    /\ consecutive_errors' = errors_after_record(consecutive_errors, success)
    /\ last_error_time' = error_time_after_record(success, now)
    /\ Len(actions_history') % save_period = 0
    /\ actions_log_file' = failed_write(actions_log_file, outcome)
    /\ last_call' = Call("record_action", action_type, success, TRUE)
    /\ UNCHANGED <<now, alive, limits, history_maxlen,
                   daily_pattern, burst_mode, burst_threads, bot>>

\* RateLimiter._calculate_dynamic_delay(action_type), called by
\* wait_before_action: the range is returned, nothing is changed
CalculateDynamicDelay(action_type) ==
    /\ alive
    /\ last_call' = Call("_calculate_dynamic_delay", action_type, TRUE,
                         calculate_dynamic_delay(actions_history,
                                                 limits.max_actions_per_hour,
                                                 daily_pattern, burst_mode, now))
    /\ UNCHANGED <<now, alive, limits, actions_history, history_maxlen, consecutive_errors,
                   last_error_time, actions_log_file, daily_pattern, burst_mode, burst_threads, bot>>

\* RateLimiter.wait_after_error: the range the delay is drawn from; the sleep
\* that follows is the clock advancing
WaitAfterError ==
    /\ alive
    /\ last_call' = Call("wait_after_error", AnyType, TRUE,
                         wait_after_error_range(consecutive_errors))
    /\ UNCHANGED <<now, alive, limits, actions_history, history_maxlen, consecutive_errors,
                   last_error_time, actions_log_file, daily_pattern, burst_mode, burst_threads, bot>>

\* Variant of enable_burst_mode: switching burst mode on also clears the error
\* state, as reset_error_count does
EnableBurstModeResetting(duration_minutes) ==
    /\ alive
    /\ Len(burst_threads) < MaxBursts
    /\ burst_mode' = TRUE
    /\ burst_threads' =
          Append(burst_threads,
                 [wakes |-> now + duration_minutes * 60, pc |-> "sleeping"])
    /\ consecutive_errors' = 0
    /\ last_error_time' = None
    /\ last_call' = Call("enable_burst_mode", AnyType, TRUE, TRUE)
    /\ UNCHANGED <<now, alive, limits, actions_history, history_maxlen,
                   actions_log_file, daily_pattern, bot>>

\* RateLimiter.get_next_action_time(action_type): it calls can_perform_action,
\* which may reset the error counter, and returns None or a time
GetNextActionTime(action_type, skip) ==
    /\ alive
    /\ consecutive_errors' = errors_after_check(consecutive_errors, last_error_time, now)
    /\ last_call' = Call("get_next_action_time", action_type, TRUE,
                         get_next_action_time(
                             actions_history, now, action_type,
                             can_perform_action(actions_history, consecutive_errors,
                                                last_error_time, now, action_type, skip)))
    /\ UNCHANGED <<now, alive, limits, actions_history, history_maxlen, last_error_time,
                   actions_log_file, daily_pattern, burst_mode, burst_threads, bot>>

\* RateLimiter.reset_error_count
ResetErrorCount ==
    /\ alive
    /\ consecutive_errors' = 0
    /\ last_error_time' = None
    /\ last_call' = Call("reset_error_count", AnyType, TRUE, TRUE)
    /\ UNCHANGED <<now, alive, limits, actions_history, history_maxlen, actions_log_file,
                   daily_pattern, burst_mode, burst_threads, bot>>

\* RateLimiter.get_rate_limit_status: the dictionary is returned, nothing is
\* changed
GetRateLimitStatus ==
    /\ alive
    /\ last_call' = Call("get_rate_limit_status", AnyType, TRUE,
                         get_rate_limit_status(actions_history, consecutive_errors,
                                               last_error_time, daily_pattern,
                                               burst_mode, now))
    /\ UNCHANGED <<now, alive, limits, actions_history, history_maxlen, consecutive_errors,
                   last_error_time, actions_log_file, daily_pattern, burst_mode,
                   burst_threads, bot>>

\* RateLimiter.get_statistics: the dictionary is returned, nothing is changed
GetStatistics ==
    /\ alive
    /\ last_call' = Call("get_statistics", AnyType, TRUE,
                         get_statistics(actions_history, consecutive_errors,
                                        last_error_time, daily_pattern, burst_mode, now))
    /\ UNCHANGED <<now, alive, limits, actions_history, history_maxlen, consecutive_errors,
                   last_error_time, actions_log_file, daily_pattern, burst_mode,
                   burst_threads, bot>>

\* RateLimiter.enable_burst_mode(duration_minutes): the flag is set and a
\* timer thread is started, which sleeps for the duration
EnableBurstMode(duration_minutes) ==
    /\ alive
    /\ Len(burst_threads) < MaxBursts
    /\ burst_mode' = TRUE
    /\ burst_threads' =
          Append(burst_threads,
                 [wakes |-> now + duration_minutes * 60, pc |-> "sleeping"])
    /\ last_call' = Call("enable_burst_mode", AnyType, TRUE, TRUE)
    /\ UNCHANGED <<now, alive, limits, actions_history, history_maxlen, consecutive_errors,
                   last_error_time, actions_log_file, daily_pattern, bot>>

\* disable_burst, the body of the i-th timer thread of enable_burst_mode: once
\* its sleep is over it clears the flag and ends
DisableBurst(i) ==
    /\ alive
    /\ i \in DOMAIN burst_threads
    /\ burst_threads[i].pc = "sleeping"
    /\ now >= burst_threads[i].wakes
    /\ burst_mode' = FALSE
    /\ burst_threads' = [burst_threads EXCEPT ![i].pc = "done"]
    /\ last_call' = Call("disable_burst", AnyType, TRUE, TRUE)
    /\ UNCHANGED <<now, alive, limits, actions_history, history_maxlen, consecutive_errors,
                   last_error_time, actions_log_file, daily_pattern, bot>>

\* The orchestrator, TwitterBot (twitter_bot.py), driving the limiter.

\* safety.max_consecutive_errors, default 5
max_consecutive_errors == 5
\* max_selections = 3
max_selections == 3

\* the record_action calls of one engagement: a success of every tracked type
\* the engagement performed, in the order like, reply, retweet, or one failed
\* 'engagement' when it performed none
records_of(results) ==
    IF results = {}
    THEN <<[type |-> "engagement", success |-> FALSE]>>
    ELSE SelectSeq(<<[type |-> "like", success |-> TRUE],
                     [type |-> "reply", success |-> TRUE],
                     [type |-> "retweet", success |-> TRUE]>>,
                   LAMBDA r : r.type \in results)

\* the history after the given record_action calls, made at time t
RECURSIVE history_after(_, _, _)
history_after(h, records, t) ==
    IF records = <<>> THEN h
    ELSE history_after(deque_append(h, [type |-> Head(records).type,
                                        success |-> Head(records).success,
                                        timestamp |-> t]),
                       Tail(records), t)

\* the action log after the given record_action calls, made at time t: each
\* call saves when it leaves the history at a multiple of 10 records
RECURSIVE file_after(_, _, _, _)
file_after(h, file, records, t) ==
    IF records = <<>> THEN file
    ELSE LET next == history_after(h, <<Head(records)>>, t)
         IN  file_after(next,
                        IF Len(next) % save_period = 0
                        THEN save_actions_history(next)
                        ELSE file,
                        Tail(records), t)

\* the three can_perform_action calls the orchestrator makes for 'like',
\* 'reply' and 'retweet': the types allowed. skips gives the quiet-period draw
\* of each call. The first call resets the error counter when the cooldown is
\* over; the later calls then find the counter at 0, and none of the three is
\* answered from the cooldown test, as with the counter before the calls.
allowed_actions(h, errors, error_time, t, skips) ==
    {action_type \in TrackedTypes :
        can_perform_action(h, errors, error_time, t, action_type, skips[action_type])}

\* the step of the cycle after the engagement loop: the cycle succeeded when
\* an engagement did; otherwise run() calls wait_after_error before the pause
after_loop(succeeded) == IF succeeded THEN "pause" ELSE "after_error"

\* _perform_health_check, "Check rate limiter status": the check passes when
\* status.get('consecutive_errors', 0) is below max_consecutive_errors (the
\* session of the cookie manager is taken to be valid)
health_check(status) ==
    (IF status.empty THEN 0 ELSE status.consecutive_errors) < max_consecutive_errors

\* TwitterBot._perform_bot_cycle, "Health check": a failed check ends the cycle
BotHealthCheck ==
    /\ alive
    /\ bot.pc = "health"
    /\ LET passed == health_check(get_rate_limit_status(
                          actions_history, consecutive_errors, last_error_time,
                          daily_pattern, burst_mode, now))
       IN  /\ bot' = BotAt(IF passed THEN "find" ELSE "after_error", 0, FALSE, {})
           /\ last_call' = Call("_perform_health_check", AnyType, TRUE, passed)
    /\ UNCHANGED <<now, alive, limits, actions_history, history_maxlen, consecutive_errors,
                   last_error_time, actions_log_file, daily_pattern, burst_mode,
                   burst_threads>>

\* TwitterBot._perform_bot_cycle, "Find tweets": the search finds tweets or
\* none; with none the cycle ends
BotFindTweets(found) ==
    /\ alive
    /\ bot.pc = "find"
    /\ bot' = BotAt(IF found THEN "select" ELSE "after_error", 0, FALSE, {})
    /\ last_call' = Call("_find_tweets_to_engage", AnyType, TRUE, found)
    /\ UNCHANGED <<now, alive, limits, actions_history, history_maxlen, consecutive_errors,
                   last_error_time, actions_log_file, daily_pattern, burst_mode,
                   burst_threads>>

\* TwitterBot._select_tweets_for_engagement: the limiter is asked for the three
\* types; when none is allowed no tweet is selected and the cycle ends, else
\* up to max_selections tweets are selected (selected of them, by the number
\* of tweets found)
BotSelectTweets(skips, selected) ==
    /\ alive
    /\ bot.pc = "select"
    /\ consecutive_errors' = errors_after_check(consecutive_errors, last_error_time, now)
    /\ LET available == allowed_actions(actions_history, consecutive_errors,
                                        last_error_time, now, skips)
       IN  /\ bot' = IF available # {}
                     THEN BotAt("check", selected, FALSE, {})
                     ELSE BotAt("after_error", 0, FALSE, {})
           /\ last_call' = Call("_select_tweets_for_engagement", AnyType, TRUE, available)
    /\ UNCHANGED <<now, alive, limits, actions_history, history_maxlen, last_error_time,
                   actions_log_file, daily_pattern, burst_mode, burst_threads>>

\* TwitterBot._engage_with_selected_tweets, "Check rate limits before each
\* engagement": the limiter is asked for the three types, and the loop is left
\* when none is allowed
BotCheckLimits(skips) ==
    /\ alive
    /\ bot.pc = "check"
    /\ consecutive_errors' = errors_after_check(consecutive_errors, last_error_time, now)
    /\ LET available == allowed_actions(actions_history, consecutive_errors,
                                        last_error_time, now, skips)
       IN  /\ bot' = IF available # {}
                     THEN BotAt("engage", bot.tweets, bot.succeeded, available)
                     ELSE BotAt(after_loop(bot.succeeded), 0, bot.succeeded, {})
           /\ last_call' = Call("_engage_with_selected_tweets", AnyType, TRUE, available)
    /\ UNCHANGED <<now, alive, limits, actions_history, history_maxlen, last_error_time,
                   actions_log_file, daily_pattern, burst_mode, burst_threads>>

\* TwitterBot._engage_with_selected_tweets, the rest of one pass of the loop:
\* wait_before_action, engage_with_tweet, which performs the actions in
\* results (it does not ask the limiter), and the record_action calls for
\* them; an engagement that performed none, or raised, is recorded as a
\* failed 'engagement'
BotEngage(results) ==
    /\ alive
    /\ bot.pc = "engage"
    /\ results # {} \/ consecutive_errors < MaxErrors
    /\ actions_history' = history_after(actions_history, records_of(results), now)
    /\ actions_log_file' =
          file_after(actions_history, actions_log_file, records_of(results), now)
    /\ consecutive_errors' = errors_after_record(consecutive_errors, results # {})
    /\ last_error_time' = error_time_after_record(results # {}, now)
    /\ LET succeeded == bot.succeeded \/ results # {}
       IN  bot' = IF bot.tweets > 1
                  THEN BotAt("check", bot.tweets - 1, succeeded, {})
                  ELSE BotAt(after_loop(succeeded), 0, succeeded, {})
    /\ last_call' = Call("engage_with_tweet", AnyType, results # {}, results)
    /\ UNCHANGED <<now, alive, limits, history_maxlen, daily_pattern, burst_mode,
                   burst_threads>>

\* TwitterBot.run, "Handle consecutive errors": wait_after_error after a cycle
\* that did not succeed
BotWaitAfterError ==
    /\ alive
    /\ bot.pc = "after_error"
    /\ bot' = BotAt("pause", 0, FALSE, {})
    /\ last_call' = Call("wait_after_error", AnyType, TRUE,
                         wait_after_error_range(consecutive_errors))
    /\ UNCHANGED <<now, alive, limits, actions_history, history_maxlen, consecutive_errors,
                   last_error_time, actions_log_file, daily_pattern, burst_mode,
                   burst_threads>>

\* TwitterBot.run, "Pause between cycles": after the sleep the next cycle
\* starts
BotPause ==
    /\ alive
    /\ bot.pc = "pause"
    /\ bot' = BotAt("health", 0, FALSE, {})
    /\ last_call' = Call("pause", AnyType, TRUE, TRUE)
    /\ UNCHANGED <<now, alive, limits, actions_history, history_maxlen, consecutive_errors,
                   last_error_time, actions_log_file, daily_pattern, burst_mode,
                   burst_threads>>

\* RateLimiter.__del__: the history is saved when the limiter goes away
Del ==
    /\ alive
    /\ alive' = FALSE
    /\ actions_log_file' = save_actions_history(actions_history)
    /\ actions_history' = <<>>
    /\ consecutive_errors' = 0
    /\ last_error_time' = None
    /\ last_call' = Call("del", AnyType, TRUE, TRUE)
    /\ UNCHANGED <<now, limits, history_maxlen,
                   daily_pattern, burst_mode, burst_threads, bot>>

\* RateLimiter.__del__ when the write fails
DelUnsaved(outcome) ==
    /\ alive
    /\ alive' = FALSE
    /\ actions_log_file' = failed_write(actions_log_file, outcome)
    /\ actions_history' = <<>>
    /\ consecutive_errors' = 0
    /\ last_error_time' = None
    /\ last_call' = Call("del", AnyType, TRUE, TRUE)
    /\ UNCHANGED <<now, limits, history_maxlen,
                   daily_pattern, burst_mode, burst_threads, bot>>

\* RateLimiter.__init__: a new limiter loads the action log
Construct ==
    /\ ~alive
    /\ alive' = TRUE
    /\ actions_history' = load_actions_history(actions_log_file, now)
    /\ consecutive_errors' = 0
    /\ last_error_time' = None
    /\ daily_pattern' = generate_daily_pattern(JitterScale)
    /\ burst_mode' = FALSE
    /\ burst_threads' = <<>>
    /\ last_call' = Call("init", AnyType, TRUE, TRUE)
    /\ UNCHANGED <<now, limits, history_maxlen, actions_log_file, bot>>

\* The limiter under quota load: the orchestrator's records, the clock moving
\* across the hourly and daily windows.
Next ==
    \/ Tick(QuotaInstants)
    \/ \E action_type \in TrackedTypes \cup {"search"}, skip \in BOOLEAN :
          CanPerformAction(action_type, skip)
    \/ \E r \in OrchestratorRecords : RecordAction(r[1], r[2])

Spec == Init /\ [][Next]_vars

\* The limiter under failures: records that succeed or fail, the clock moving
\* across the cooldown.
NextCooldown ==
    \/ Tick(CooldownInstants)
    \/ \E action_type \in {"like", "search"}, skip \in BOOLEAN :
          CanPerformAction(action_type, skip)
    \/ \E r \in MixedRecords : RecordAction(r[1], r[2])

SpecCooldown == InitWide /\ [][NextCooldown]_vars

\* The limiter across restarts: the history is saved when a limiter goes away
\* and loaded by the next one, the clock moving across the retention window.
NextStore ==
    \/ Tick(StoreInstants)
    \/ \E r \in StoreRecords : RecordAction(r[1], r[2])
    \/ Del
    \/ Construct

SpecStore == InitStore /\ [][NextStore]_vars

\* the limiter starts on a machine with no action log, with a log that is not
\* valid JSON, or with a log that holds a malformed record
InitLoad ==
    \E file \in {NoFile, CorruptFile} \cup MalformedFiles : Start(TightLimits, file)

\* Clock readings for the load: the start, a second later, and 12:00, which is
\* in a quiet period.
LoadInstants == {T0 + o : o \in {0, 1, 4 * SecondsPerHour}}

\* The limiter on a damaged log: it is constructed, asked, records, and goes
\* away with the write of its log succeeding or failing.
NextLoad ==
    \/ Tick(LoadInstants)
    \/ \E skip \in BOOLEAN : CanPerformAction("like", skip)
    \/ RecordAction("like", TRUE)
    \/ Del
    \/ \E outcome \in WriteFailures : DelUnsaved(outcome)
    \/ Construct

SpecLoad == InitLoad /\ [][NextLoad]_vars

\* the limiter whose pacing is followed: the draws of its pattern give any of
\* the jitter factors
InitPacing ==
    \E jitter \in Jitters : Constructed(PacingLimits, NoFile, pacing_maxlen, jitter)

\* Clock readings for the pacing: the start (a Thursday at 08:00 when StartDay
\* is 10), one hour later, when the records of the start have left the hourly
\* window, 18:00 of the same day, and 08:00 two days later.
PacingInstants ==
    {T0 + o : o \in {0, SecondsPerHour, 10 * SecondsPerHour, 2 * SecondsPerDay}}

\* The limiter pacing its caller: actions are recorded, the delay range is
\* computed, burst mode is switched on and expires.
NextPacing ==
    \/ Tick(PacingInstants)
    \/ RecordAction("like", TRUE)
    \/ CalculateDynamicDelay("like")
    \/ EnableBurstMode(default_duration_minutes)
    \/ \E i \in 1..MaxBursts : DisableBurst(i)

SpecPacing == InitPacing /\ [][NextPacing]_vars

\* Clock readings for the quiet periods: every hour of one day, from the
\* start.
QuietInstants == {T0 + k * SecondsPerHour : k \in 0..23}

\* The limiter around the clock: it is asked at every hour of the day, and
\* now and then an action is recorded.
NextQuiet ==
    \/ Tick(QuietInstants)
    \/ \E action_type \in {"like", "search"}, skip \in BOOLEAN :
          CanPerformAction(action_type, skip)
    \/ RecordAction("like", TRUE)

SpecQuiet == Init /\ [][NextQuiet]_vars

\* Clock readings for burst mode: the start, and 20, 30 and 50 minutes later.
BurstInstants == {T0 + m * 60 : m \in {0, 20, 30, 50}}

\* The limiter with burst mode: it is switched on, for a duration that ends
\* within the clock readings followed, its timers expire, and meanwhile the
\* limiter is asked and records failures.
NextBurst ==
    \/ Tick(BurstInstants)
    \/ \E duration_minutes \in BurstDurations :
          /\ \E t \in BurstInstants : now + duration_minutes * 60 <= t
          /\ EnableBurstMode(duration_minutes)
    \/ \E i \in 1..MaxBursts : DisableBurst(i)
    \/ \E skip \in BOOLEAN : CanPerformAction("like", skip)
    \/ RecordAction("like", FALSE)

SpecBurst == InitWide /\ [][NextBurst]_vars

\* The same limiter where time passes and a timer thread whose sleep is over
\* runs.
SpecBurstFair ==
    /\ SpecBurst
    /\ WF_vars(Tick(BurstInstants))
    /\ \A i \in 1..MaxBursts : WF_vars(DisableBurst(i))

\* the limiter that is queried starts with positive caps, or with a cap of 0
InitQueries ==
    \E rate_limits \in {WideLimits, ZeroRetweetLimits} : Start(rate_limits, NoFile)

\* Clock readings for the queries: the start, a second later, and 30 minutes
\* after the start.
QueryInstants == {T0 + o : o \in {0, 1, cooldown_seconds}}

\* The limiter queried: between records that succeed or fail it is asked for
\* permission, for its delays, its status and its statistics.
NextQueries ==
    \/ Tick(QueryInstants)
    \/ \E r \in StoreRecords : RecordAction(r[1], r[2])
    \/ \E skip \in BOOLEAN : CanPerformAction("like", skip)
    \/ CalculateDynamicDelay("like")
    \/ WaitAfterError
    \/ GetRateLimitStatus
    \/ GetStatistics

SpecQueries == InitQueries /\ [][NextQueries]_vars

\* the limiter starts on a machine with no action log, or with a log an
\* earlier limiter saved
InitRestart == \E file \in {NoFile, RecentFile(maxlen - 1)} : Start(TightLimits, file)

\* The limiter across restarts on its own log: it records, goes away with the
\* write of its log succeeding or failing, and the next one loads the log.
NextRestart ==
    \/ Tick(StoreInstants)
    \/ \E r \in StoreRecords : RecordAction(r[1], r[2])
    \/ Del
    \/ \E outcome \in WriteFailures : DelUnsaved(outcome)
    \/ Construct

SpecRestart == InitRestart /\ [][NextRestart]_vars

\* Clock readings for the error state: the start, a second later, and the
\* instants 30 minutes after each of them.
ErrorInstants == {T0 + o : o \in {0, 1, cooldown_seconds, cooldown_seconds + 1}}

\* The limiter and its error state: actions succeed or fail, the limiter is
\* asked, and the error count is reset by hand.
NextErrors ==
    \/ Tick(ErrorInstants)
    \/ \E success \in BOOLEAN : RecordAction("like", success)
    \/ \E skip \in BOOLEAN : CanPerformAction("like", skip)
    \/ ResetErrorCount

SpecErrors == InitWide /\ [][NextErrors]_vars

\* Clock readings for the next action time: the start, on the hour, a second
\* later, and half past the hour.
NextTimeInstants == {T0 + o : o \in {0, 1, cooldown_seconds}}

\* The limiter asked when to act next: between records that succeed or fail
\* the caller asks for the next time of a tracked or an untracked type.
NextNextTime ==
    \/ Tick(NextTimeInstants)
    \/ \E r \in MixedRecords : RecordAction(r[1], r[2])
    \/ \E action_type \in {"like", "search"}, skip \in BOOLEAN :
          GetNextActionTime(action_type, skip)

SpecNextTime == Init /\ [][NextNextTime]_vars

\* Clock readings for the orchestrator: the start, a second later, and one
\* hour after each of them.
BotInstants == {T0 + o : o \in {0, 1, SecondsPerHour, SecondsPerHour + 1}}

\* The orchestrator's cycles: health check, search, selection, the engagement
\* loop with the given outcomes of an engagement, the wait after a cycle that
\* did not succeed and the pause, while time passes.
BotCycle(outcomes) ==
    \/ Tick(BotInstants)
    \/ BotHealthCheck
    \/ \E found \in BOOLEAN : BotFindTweets(found)
    \/ \E skips \in [TrackedTypes -> BOOLEAN], selected \in 1..max_selections :
          BotSelectTweets(skips, selected)
    \/ \E skips \in [TrackedTypes -> BOOLEAN] : BotCheckLimits(skips)
    \/ \E results \in outcomes : BotEngage(results)
    \/ BotWaitAfterError
    \/ BotPause

\* the orchestrator on a limiter driven to its caps, an engagement performing
\* any of like, reply and retweet
NextBot == BotCycle(SUBSET TrackedTypes)

SpecBot == Init /\ [][NextBot]_vars

\* the orchestrator on a limiter whose hourly cap leaves room for five
\* failures, an engagement performing a like or nothing
InitBotFair == Start(PacingLimits, NoFile)

NextBotFair == BotCycle({{}, {"like"}})

\* Every step of the cycle that can be taken is taken, time passes, and a
\* search that is repeated finds tweets again and again.
SpecBotFair ==
    /\ InitBotFair
    /\ [][NextBotFair]_vars
    /\ WF_vars(Tick(BotInstants))
    /\ WF_vars(NextBotFair /\ bot' # bot)
    /\ SF_vars(BotFindTweets(TRUE))

\* Clock readings for the backoff: the start and a second later.
BackoffInstants == {T0, T0 + 1}

\* The limiter after errors: actions succeed or fail, and the caller waits
\* after an error.
NextBackoff ==
    \/ Tick(BackoffInstants)
    \/ \E success \in BOOLEAN : RecordAction("like", success)
    \/ WaitAfterError

SpecBackoff == InitWide /\ [][NextBackoff]_vars

\* the limiter whose periodic saves are followed starts with no log or with a
\* log of loaded_len records; its history holds one save period of records
InitSave ==
    \E file \in {NoFile, RecentFile(loaded_len)} :
        StartBounded(TightLimits, file, long_maxlen)

\* The limiter between restarts: records fill the history up to its bound and
\* beyond, the write of a periodic save succeeding or failing.
NextSave ==
    \/ \E r \in StoreRecords : RecordAction(r[1], r[2])
    \/ \E r \in StoreRecords : RecordActionUnsaved(r[1], r[2], "truncated")

SpecSave == InitSave /\ [][NextSave]_vars

-----------------------------------------------------------------------------
\* Vocabulary of the properties.

\* the records of h within the trailing w seconds of time t, of the given type
InWindow(h, t, w, action_type) ==
    {i \in DOMAIN h : /\ h[i].timestamp > t - w
                      /\ (action_type = AnyType \/ h[i].type = action_type)}

DailyTotal == Cardinality(InWindow(actions_history, now, SecondsPerDay, AnyType))
HourlyTotal == Cardinality(InWindow(actions_history, now, SecondsPerHour, AnyType))
HourlyOf(action_type) ==
    Cardinality(InWindow(actions_history, now, SecondsPerHour, action_type))

CapOf(action_type) ==
    IF action_type = "like" THEN limits.max_likes_per_hour
    ELSE IF action_type = "reply" THEN limits.max_replies_per_hour
    ELSE limits.max_retweets_per_hour

\* five or more consecutive errors, the last one less than 30 minutes ago
CoolingDown ==
    /\ consecutive_errors >= 5
    /\ last_error_time # None
    /\ now - last_error_time < 30 * 60

\* what can_perform_action would return in the current state
Allows(action_type, skip) ==
    can_perform_action(actions_history, consecutive_errors, last_error_time, now,
                       action_type, skip)

\* the current state is the one a can_perform_action call has just returned in
Checked == last_call.op = "can_perform_action"
Recorded == last_call.op = "record_action"

\* no limit other than the per-type cap applies
NoGlobalLimit ==
    /\ ~CoolingDown
    /\ DailyTotal < limits.max_actions_per_day
    /\ HourlyTotal < limits.max_actions_per_hour
    /\ ~is_in_quiet_period(now)

-----------------------------------------------------------------------------
\* C1. Error cooldown. While consecutive_errors is 5 or more (the value five
\* consecutive failed records leave, the newest record being the last failure),
\* can_perform_action returns False for every action type at every time less
\* than 30 minutes after the last failure; a call made 30 minutes or more after
\* it, with every quota under its cap and outside the quiet hours, returns True
\* and leaves consecutive_errors at 0.
C1_DeniedInCooldown ==
    /\ consecutive_errors > 0 =>
          /\ last_error_time # None
          /\ actions_history # <<>>
          /\ ~actions_history[Len(actions_history)].success
          /\ actions_history[Len(actions_history)].timestamp = last_error_time
    /\ (consecutive_errors >= 5 /\ now - last_error_time < 30 * 60) =>
          /\ \A action_type \in ActionTypes, skip \in BOOLEAN :
                ~Allows(action_type, skip)
          /\ Checked => ~last_call.ret

C1_AllowedAfterCooldown ==
    ( /\ last_call'.op = "can_perform_action"
      /\ consecutive_errors >= 5
      /\ now - last_error_time >= 30 * 60
      /\ DailyTotal < limits.max_actions_per_day
      /\ HourlyTotal < limits.max_actions_per_hour
      /\ (last_call'.type \in TrackedTypes =>
             HourlyOf(last_call'.type) < CapOf(last_call'.type))
      /\ ~is_in_quiet_period(now) )
    => (last_call'.ret /\ consecutive_errors' = 0)

C1_ErrorCooldown == [](C1_DeniedInCooldown) /\ [][C1_AllowedAfterCooldown]_vars

\* C1 witness: a call made exactly 30 minutes after the fifth failure has
\* returned True and reset the counter.
C1_Witness ==
    /\ Checked /\ last_call.ret
    /\ consecutive_errors = 0
    /\ last_error_time # None
    /\ now - last_error_time = 30 * 60
    /\ ~actions_history[Len(actions_history)].success

\* C2. Per-type hourly cap. Whenever the trailing hour holds at least cap(T)
\* records of a tracked type T, can_perform_action(T) returns False; when it
\* holds fewer and no cooldown, global cap or quiet period applies,
\* can_perform_action(T) returns True.
C2_TypeCap ==
    \A action_type \in TrackedTypes :
        /\ HourlyOf(action_type) >= CapOf(action_type) =>
              /\ \A skip \in BOOLEAN : ~Allows(action_type, skip)
              /\ (Checked /\ last_call.type = action_type) => ~last_call.ret
        /\ (HourlyOf(action_type) < CapOf(action_type) /\ NoGlobalLimit) =>
              /\ \A skip \in BOOLEAN : Allows(action_type, skip)
              /\ (Checked /\ last_call.type = action_type) => last_call.ret

\* C2 witness: a check of a type was allowed although the history holds cap(T)
\* records of it, all of them an hour old or older.
C2_Witness ==
    /\ Checked /\ last_call.ret /\ last_call.type = "like"
    /\ Cardinality(InWindow(actions_history, now, SecondsPerDay, "like"))
          >= limits.max_likes_per_hour
    /\ HourlyOf("like") = 0
    /\ \E i \in DOMAIN actions_history :
          actions_history[i].type = "like"
          /\ actions_history[i].timestamp = now - SecondsPerHour

\* C3. Daily cap. Whenever the trailing 24 hours hold at least
\* max_actions_per_day records (of any type, successful or failed),
\* can_perform_action returns False for every action type; when they hold fewer
\* and no other limit applies, it returns True.
C3_DailyCap ==
    /\ DailyTotal >= limits.max_actions_per_day =>
          /\ \A action_type \in ActionTypes, skip \in BOOLEAN :
                ~Allows(action_type, skip)
          /\ Checked => ~last_call.ret
    /\ ( /\ DailyTotal < limits.max_actions_per_day
         /\ ~CoolingDown
         /\ HourlyTotal < limits.max_actions_per_hour
         /\ ~is_in_quiet_period(now) ) =>
          \A action_type \in ActionTypes :
              (action_type \in TrackedTypes =>
                  HourlyOf(action_type) < CapOf(action_type))
              => /\ Allows(action_type, FALSE)
                 /\ (Checked /\ last_call.type = action_type) => last_call.ret

\* C3 witness: the history holds max_actions_per_day records of mixed types
\* and outcomes, the oldest has left the 24-hour window, and a check was
\* allowed.
C3_Witness ==
    /\ Checked /\ last_call.ret
    /\ Len(actions_history) >= limits.max_actions_per_day
    /\ DailyTotal < limits.max_actions_per_day
    /\ DailyTotal > 0
    /\ \E i, j \in DOMAIN actions_history :
          /\ actions_history[i].success /\ ~actions_history[j].success
          /\ actions_history[i].type # actions_history[j].type

\* C4. A type with no cap of its own. For 'search' and 'engagement' the result
\* is decided by the cooldown, the 24-hour total, the 1-hour total and the
\* quiet-period draw alone; the like, reply and retweet caps never deny it.
C4_UncappedType ==
    \A action_type \in ActionTypes \ TrackedTypes, skip \in BOOLEAN :
        LET expected ==
                /\ ~CoolingDown
                /\ DailyTotal < limits.max_actions_per_day
                /\ HourlyTotal < limits.max_actions_per_hour
                /\ ~(skip /\ is_in_quiet_period(now))
        IN  /\ Allows(action_type, skip) = expected
            /\ (Checked /\ last_call.type = action_type) =>
                  /\ HourlyTotal >= limits.max_actions_per_hour => ~last_call.ret
                  /\ (expected /\ ~is_in_quiet_period(now)) => last_call.ret

\* C4 witness: a 'search' check was allowed while a tracked type is at its cap.
C4_Witness ==
    /\ Checked /\ last_call.ret /\ last_call.type = "search"
    /\ \E action_type \in TrackedTypes : HourlyOf(action_type) >= CapOf(action_type)

\* C5. _get_actions_in_timeframe counts exactly the records with
\* timestamp > now - W (of the given type, when one is given), for the windows
\* the program uses: a record at now - W is not counted, one a second later is.
C5_WindowCount ==
    \A hours \in {1, 24}, action_type \in ActionTypes \cup {AnyType} :
        /\ get_actions_in_timeframe(actions_history, now, hours, action_type)
              = Cardinality(InWindow(actions_history, now, hours * 3600, action_type))
        /\ \A i \in DOMAIN actions_history :
              LET one == <<actions_history[i]>>
                  age == now - actions_history[i].timestamp
              IN  get_actions_in_timeframe(one, now, hours, AnyType)
                     = IF age < hours * 3600 THEN 1 ELSE 0

\* C5 witness: the history holds a record exactly one hour old and one a second
\* younger, and the count over one hour has been used by a check.
C5_Witness ==
    /\ Checked
    /\ \E i, j \in DOMAIN actions_history :
          /\ actions_history[i].timestamp = now - 3600
          /\ actions_history[j].timestamp = now - 3600 + 1
    /\ get_actions_in_timeframe(actions_history, now, 1, AnyType) = 1

\* C6 (as stated). can_perform_action is monotonic in the history: with the
\* limits and the clock fixed and the quiet-period draw left aside, adding a
\* record changes the result for a type only from allow to deny, never from
\* deny to allow.
C6_Monotonic ==
    [][ last_call'.op = "record_action" =>
          \A action_type \in ActionTypes :
              ~Allows(action_type, FALSE) => ~Allows(action_type, FALSE)' ]_vars

\* the record_action call evicts, from a full history, a record of the given
\* type that is inside the trailing hour
EvictsCounted(action_type) ==
    /\ Len(actions_history) >= maxlen
    /\ Head(actions_history).type = action_type
    /\ Head(actions_history).timestamp > now - SecondsPerHour

\* C6 (amended). Adding a record with record_action changes the result for a
\* type only from allow to deny, with two exceptions: a record with
\* success=True made during an error cooldown resets consecutive_errors and so
\* ends the cooldown; and a call on a full history that evicts a record of that
\* type from the trailing hour lowers that type's count.
C6_MonotonicOutsideCooldown ==
    [][ last_call'.op = "record_action" =>
          \A action_type \in ActionTypes :
              ( /\ ~(last_call'.success /\ CoolingDown)
                /\ ~EvictsCounted(action_type)
                /\ ~Allows(action_type, FALSE) )
              => ~Allows(action_type, FALSE)' ]_vars

\* C6 witness: a record has just taken a type from allow to deny: the like
\* that reaches the like cap, with the global caps not reached.
C6_Witness ==
    /\ Recorded /\ last_call.type = "like"
    /\ actions_history[Len(actions_history)].timestamp = now
    /\ HourlyOf("like") = limits.max_likes_per_hour
    /\ HourlyTotal < limits.max_actions_per_hour
    /\ ~CoolingDown
    /\ ~Allows("like", FALSE)
    /\ Allows("search", FALSE)

\* C7. Every record_action with success=False increases consecutive_errors by
\* exactly 1 and sets last_error_time to the current time; every record_action
\* with success=True sets consecutive_errors to 0, whatever its previous value
\* and the action type.
C7_ErrorCounter ==
    [][ last_call'.op = "record_action" =>
          IF last_call'.success
          THEN consecutive_errors' = 0
          ELSE /\ consecutive_errors' = consecutive_errors + 1
               /\ last_error_time' = now ]_vars

\* C7 witness: a success has reset the counter after failures (the failed
\* records are still the ones before it in the history).
C7_Witness ==
    /\ Recorded /\ last_call.success
    /\ consecutive_errors = 0
    /\ Len(actions_history) = maxlen
    /\ \A i \in 1..(Len(actions_history) - 1) : ~actions_history[i].success

-----------------------------------------------------------------------------
\* Persistence and retention (SpecStore).

RetentionSeconds == retention_days * SecondsPerDay

\* the (type, success, timestamp) triples an action log holds, in file order,
\* the timestamp read back from its date and time-of-day parts
Decoded(s) ==
    [i \in DOMAIN s |->
        [type |-> s[i].type, success |-> s[i].success,
         timestamp |-> s[i].timestamp.date * SecondsPerDay + s[i].timestamp.time]]

\* the records of h less than 7 days old at time t, in the order of h
YoungerThanRetention(h, t) ==
    LET Young(a) == a.timestamp > t - RetentionSeconds IN SelectSeq(h, Young)

\* the records of h not more than 7 days old at time t, in the order of h
NotOlderThanRetention(h, t) ==
    LET NotOld(a) == a.timestamp >= t - RetentionSeconds IN SelectSeq(h, NotOld)

Loaded == last_call.op = "init"

C9_NoStaleAfterLoad ==
    Loaded => \A i \in DOMAIN actions_history :
                  actions_history[i].timestamp > now - RetentionSeconds

\* C9 witness: a limiter constructed on a log with an entry that is not a JSON
\* object holds, right after the load, the record before that entry, which is
\* more than 7 days old.
C9_Witness ==
    /\ Loaded
    /\ actions_log_file.exists
    /\ loop_raises(actions_log_file.actions)
    /\ \E i \in DOMAIN actions_history :
          actions_history[i].timestamp < now - RetentionSeconds

-----------------------------------------------------------------------------
\* The size bound of the history (SpecStore).

\* the record a record_action call described by last_call makes at time t
RecordOf(call, t) == [type |-> call.type, success |-> call.success, timestamp |-> t]

\* C11. After any sequence of loads and record_action calls the history holds
\* at most maxlen (10,000) records; a record_action on a full history evicts
\* exactly the oldest record, keeps the others in order and puts the new
\* record last.
C11_Bounded ==
    /\ [](Len(actions_history) <= history_maxlen)
    /\ [][ (last_call'.op = "record_action" /\ Len(actions_history) = history_maxlen) =>
              actions_history' = Append(Tail(actions_history), RecordOf(last_call', now))
        ]_vars

\* C11 witness: a limiter loaded a full log saved by its predecessor and then
\* recorded an action: the history is full, the first record of the log is
\* gone, the others are there in order and the new record is last.
C11_Witness ==
    /\ Recorded
    /\ actions_log_file.exists
    /\ ~loop_raises(actions_log_file.actions)
    /\ Len(actions_log_file.actions) = history_maxlen
    /\ Len(actions_history) = history_maxlen
    /\ \A i \in DOMAIN actions_log_file.actions :
          actions_log_file.actions[i].timestamp.kind = "iso"
    /\ SubSeq(actions_history, 1, history_maxlen - 1)
          = Tail(Decoded(actions_log_file.actions))
    /\ actions_history[history_maxlen] = RecordOf(last_call, now)

-----------------------------------------------------------------------------
\* Periodic saves (SpecSave).

\* the records of the history made by this process (the loaded ones are older
\* than the start)
Appended == Cardinality({i \in DOMAIN actions_history : actions_history[i].timestamp >= T0})

\* the records of the history loaded from the log
LoadedStill == Cardinality({i \in DOMAIN actions_history : actions_history[i].timestamp < T0})

\* no record has been evicted since the start, so that Appended is the number
\* of appends the process has made
NoneEvicted ==
    \/ Len(actions_history) < history_maxlen
    \/ LoadedStill = loaded_len

\* the record_action call that produced this state has persisted the history
SavedNow == Recorded /\ actions_log_file = save_actions_history(actions_history)

\* C12 (as stated). The history is persisted on every 10th append made by the
\* process and on no other append, also when the limiter started from a
\* loaded history and when the history is at its size bound: an append that
\* persists is a 10th append, a 10th append persists unless its write fails,
\* and no two appends in a row persist.
C12_SavedEveryTenth ==
    /\ []( (Recorded /\ NoneEvicted) =>
             /\ SavedNow => Appended % save_period = 0
             /\ Appended % save_period = 0 =>
                   (SavedNow \/ actions_log_file = TruncatedFile) )
    /\ [][ (SavedNow /\ last_call'.op = "record_action") => ~SavedNow' ]_vars

\* C12 witness: a limiter that started from a log of loaded_len records
\* persists its history at an append that is not its 10th.
C12_Witness ==
    /\ SavedNow
    /\ LoadedStill = loaded_len
    /\ Appended > 0
    /\ Appended % save_period # 0

\* C13. When the write of the action log fails, record_action returns
\* normally, and the history, consecutive_errors and last_error_time after
\* the call are what they are after a call whose write succeeds: the new record
\* appended, the counter and the error time updated from the success flag.
C13_WriteFailureHarmless ==
    [][ last_call'.op = "record_action" =>
          /\ alive'
          /\ last_call'.ret
          /\ actions_history' = deque_append(actions_history, RecordOf(last_call', now))
          /\ consecutive_errors' =
                IF last_call'.success THEN 0 ELSE consecutive_errors + 1
          /\ last_error_time' = IF last_call'.success THEN None ELSE now
      ]_vars

\* C13 witness: a failed record_action whose periodic save was due and whose
\* write failed: the log is left truncated, the history holds the new record
\* and the error counter has counted the failure.
C13_Witness ==
    /\ Recorded /\ ~last_call.success
    /\ Len(actions_history) % save_period = 0
    /\ actions_log_file = TruncatedFile
    /\ actions_history[Len(actions_history)] = RecordOf(last_call, now)
    /\ consecutive_errors >= 2
    /\ last_error_time = now

-----------------------------------------------------------------------------
\* Loading a damaged log (SpecLoad).

\* what can_perform_action can return, over the quiet-period draw, for a
\* limiter with no past actions and no errors at time t
FreshDecisions(t, action_type) ==
    {can_perform_action(<<>>, 0, None, t, action_type, skip) : skip \in BOOLEAN}

\* the log is missing or is not valid JSON
MissingOrInvalid(file) == ~file.exists \/ ~file.valid

\* C14. When the action log is missing or is not valid JSON, the constructed
\* limiter has an empty history and consecutive_errors = 0, and a
\* can_perform_action call that follows decides as for a limiter with no past
\* actions.
C14_MissingOrCorruptLog ==
    /\ []( (Loaded /\ MissingOrInvalid(actions_log_file)) =>
             /\ alive
             /\ actions_history = <<>>
             /\ consecutive_errors = 0
             /\ last_error_time = None
             /\ \A action_type \in ActionTypes, skip \in BOOLEAN :
                   Allows(action_type, skip)
                      = can_perform_action(<<>>, 0, None, now, action_type, skip) )
    /\ [][ ( /\ Loaded /\ MissingOrInvalid(actions_log_file)
             /\ last_call'.op = "can_perform_action" ) =>
              last_call'.ret \in FreshDecisions(now, last_call'.type) ]_vars

\* C14 witness: a limiter constructed on a log that is not valid JSON, though
\* its text holds a record, has an empty history and has been asked for a
\* like, which it allows.
C14_Witness ==
    /\ Checked /\ last_call.ret
    /\ alive
    /\ actions_log_file.exists /\ ~actions_log_file.valid
    /\ actions_log_file.actions # <<>>
    /\ actions_history = <<>>
    /\ consecutive_errors = 0

\* the entries of a log that have a timestamp in ISO form
WellFormedOf(s) ==
    LET WellFormed(e) == e.timestamp.kind = "iso" IN SelectSeq(s, WellFormed)

\* the log holds a malformed record among well-formed ones, which fit in the
\* history
HoldsMalformed(file) ==
    /\ file.exists /\ file.valid
    /\ ~loop_raises(file.actions)
    /\ WellFormedOf(file.actions) # file.actions
    /\ WellFormedOf(file.actions) # <<>>
    /\ Len(WellFormedOf(file.actions)) <= history_maxlen

\* C15. When the log holds a malformed record (timestamp missing or
\* unparseable) among well-formed ones, the load drops that record and loads
\* every other record younger than 7 days, in order, wherever the malformed
\* record is in the file.
C15_MalformedDropped ==
    (Loaded /\ HoldsMalformed(actions_log_file)) =>
        actions_history
           = YoungerThanRetention(Decoded(WellFormedOf(actions_log_file.actions)), now)

\* C15 witness: a limiter has loaded a log whose second entry has no timestamp,
\* between well-formed records; it holds the two records younger than 7 days,
\* one from before and one from after the malformed entry.
C15_Witness ==
    /\ Loaded /\ HoldsMalformed(actions_log_file)
    /\ actions_log_file.actions[2].timestamp = NoTimestamp
    /\ Len(actions_log_file.actions) = 4
    /\ Len(actions_history) = 2
    /\ actions_history[1].type = actions_log_file.actions[1].type
    /\ actions_history[2].type = actions_log_file.actions[4].type

-----------------------------------------------------------------------------
\* The delay after an error (SpecBackoff).

\* a number of seconds, in the half seconds of wait_after_error_range
HalfSeconds(seconds) == 2 * seconds

\* the number of failed records at the end of the history
RECURSIVE TrailingFailures(_)
TrailingFailures(h) ==
    IF h = <<>> \/ h[Len(h)].success THEN 0
    ELSE 1 + TrailingFailures(SubSeq(h, 1, Len(h) - 1))

\* C16. wait_after_error draws its delay from the configured after_error
\* range with both bounds multiplied by 1 + 0.5 * consecutive_errors: twice the
\* range is the base range times 2 + n; after 3 failures both bounds are 2.5
\* times the base bounds, and with no failure the range is the base range.
C16_ErrorBackoff ==
    last_call.op = "wait_after_error" =>
        LET n == consecutive_errors
            range == last_call.ret
        IN  /\ 2 * range.min = HalfSeconds(delay_after_error.min) * (2 + n)
            /\ 2 * range.max = HalfSeconds(delay_after_error.max) * (2 + n)
            /\ n = 3 => /\ 2 * range.min = 5 * HalfSeconds(delay_after_error.min)
                        /\ 2 * range.max = 5 * HalfSeconds(delay_after_error.max)
            /\ n = 0 => /\ range.min = HalfSeconds(delay_after_error.min)
                        /\ range.max = HalfSeconds(delay_after_error.max)

\* C16 witness: wait_after_error has been called after three failed records
\* in a row; its range is 2250 s to 4500 s.
C16_Witness ==
    /\ last_call.op = "wait_after_error"
    /\ TrailingFailures(actions_history) = 3
    /\ consecutive_errors = 3
    /\ last_call.ret = [min |-> HalfSeconds(2250), max |-> HalfSeconds(4500)]

-----------------------------------------------------------------------------
\* The delay before an action and the activity pattern (SpecPacing).

Calculated == last_call.op = "_calculate_dynamic_delay"

\* a number of seconds, in the unit of the ranges of calculate_dynamic_delay
Seconds(n) == n * DelayUnit

\* C17 (as stated). Both bounds of the range returned by
\* _calculate_dynamic_delay lie within [10, 1800] seconds, for every reachable
\* history load, pattern value, weekend damping and burst mode.
C17_DelayClamped ==
    Calculated =>
        /\ Seconds(10) <= last_call.ret.min /\ last_call.ret.min <= Seconds(1800)
        /\ Seconds(10) <= last_call.ret.max /\ last_call.ret.max <= Seconds(1800)

\* C17 witness: _calculate_dynamic_delay has returned a range whose upper
\* bound is negative, with burst mode off: the activity multiplier of the hour
\* is above 2.0.
C17_Witness ==
    /\ Calculated
    /\ ~burst_mode
    /\ get_current_activity_multiplier(daily_pattern, burst_mode, now) > 2 * ActivityUnit
    /\ last_call.ret.min = Seconds(10)
    /\ last_call.ret.max < 0

\* the range _calculate_dynamic_delay returns in the current state when its
\* load factor is the given one, in tenths
RangeWithLoadFactor(factor) ==
    LET inverse == 2 * ActivityUnit
                   - get_current_activity_multiplier(daily_pattern, burst_mode, now)
    IN  [min |-> Max(Seconds(10), delay_between_actions.min * factor * inverse),
         max |-> Min(Seconds(1800), delay_between_actions.max * factor * inverse)]

\* C18 (as stated). The load factor of _calculate_dynamic_delay is 1.5 when
\* the trailing-hour count is >= 80% of max_actions_per_hour, 0.7 when it is
\* < 20% of it, and 1.0 otherwise, a count equal to 80% of the cap included.
C18_LoadFactorFrom80 ==
    Calculated =>
        last_call.ret =
            RangeWithLoadFactor(
                IF HourlyTotal * 10 >= limits.max_actions_per_hour * 8 THEN 15
                ELSE IF HourlyTotal * 10 < limits.max_actions_per_hour * 2 THEN 7
                ELSE 10)

\* C18 (amended). The load factor of _calculate_dynamic_delay is 1.5 when the
\* trailing-hour count is above 80% of max_actions_per_hour, 0.7 when it is
\* below 20% of it, and 1.0 otherwise: a count equal to 80% or to 20% of the
\* cap has the factor 1.0.
C18_LoadFactorAbove80 ==
    Calculated =>
        last_call.ret =
            RangeWithLoadFactor(
                IF HourlyTotal * 10 > limits.max_actions_per_hour * 8 THEN 15
                ELSE IF HourlyTotal * 10 < limits.max_actions_per_hour * 2 THEN 7
                ELSE 10)

\* C18 witness: _calculate_dynamic_delay has been called with a trailing-hour
\* count of exactly 80% of the cap, at an hour whose activity multiplier is
\* below 2.0, and has returned the range of the factor 1.0, which is not the
\* range of the factor 1.5.
C18_Witness ==
    /\ Calculated
    /\ HourlyTotal * 10 = limits.max_actions_per_hour * 8
    /\ get_current_activity_multiplier(daily_pattern, burst_mode, now) < 2 * ActivityUnit
    /\ last_call.ret = RangeWithLoadFactor(10)
    /\ last_call.ret # RangeWithLoadFactor(15)

\* the fixed table of the pattern, in tenths: 1.5 for 6-9, 0.8 for 12-13, 1.8
\* for 17-22, 0.3 for the night hours 23 and 0-5, 1.0 for the other hours
TableMultiplier(hour) ==
    IF hour \in 6..9 THEN 15
    ELSE IF hour \in 12..13 THEN 8
    ELSE IF hour \in 17..22 THEN 18
    ELSE IF hour = 23 \/ hour \in 0..5 THEN 3
    ELSE 10

\* C19 (as stated). Before jitter, the generated pattern assigns to every hour
\* the multiplier of the fixed table, 0.3 for the night hours 23 and 0-5
\* included.
C19_PatternTable ==
    \E jitter \in Jitters :
        \A hour \in 0..23 : daily_pattern[hour] = TableMultiplier(hour) * jitter

\* C19 witness: the pattern a limiter has generated holds, for the night hours
\* 23 and 0-5, the multiplier 1.0 of the other hours and not 0.3.
C19_Witness ==
    /\ Loaded
    /\ \E jitter \in Jitters :
          /\ \A hour \in {23} \cup 0..5 : daily_pattern[hour] = 10 * jitter
          /\ \A hour \in 6..22 : daily_pattern[hour] = TableMultiplier(hour) * jitter

-----------------------------------------------------------------------------
\* Quiet periods (SpecQuiet).

\* the hours of a configured quiet range, a range with start > end wrapping
\* past midnight
HoursOfRange(p) == IF p[1] > p[2] THEN (p[1]..23) \cup (0..p[2]) ELSE p[1]..p[2]

\* the hours inside some configured quiet range
QuietHours == UNION {HoursOfRange(p) : p \in quiet_periods}

\* no cooldown is active and every quota that applies to the type is under
\* its cap
UnderEveryCap(action_type) ==
    /\ ~CoolingDown
    /\ DailyTotal < limits.max_actions_per_day
    /\ HourlyTotal < limits.max_actions_per_hour
    /\ action_type \in TrackedTypes => HourlyOf(action_type) < CapOf(action_type)

\* C20. With no cooldown active and every quota under its cap,
\* can_perform_action returns True when the current hour is outside every
\* quiet range, and returns True or False, by its draw, when the hour is
\* inside one (a range with start > end wraps past midnight); the hours of a
\* possible quiet-period denial are the hours for which _is_in_quiet_period
\* reports True.
C20_QuietPeriods ==
    /\ is_in_quiet_period(now) <=> hour_of(now) \in QuietHours
    /\ \A action_type \in ActionTypes :
          UnderEveryCap(action_type) =>
              /\ Allows(action_type, FALSE)
              /\ Allows(action_type, TRUE) <=> hour_of(now) \notin QuietHours
              /\ (Checked /\ last_call.type = action_type /\ consecutive_errors < 5) =>
                    (~last_call.ret => hour_of(now) \in QuietHours)

\* C20 witness: at 03:00, inside the range 23-6 that wraps past midnight, with
\* every quota under its cap, can_perform_action has denied a like, and
\* _is_in_quiet_period reports True.
C20_Witness ==
    /\ Checked /\ last_call.type = "like" /\ ~last_call.ret
    /\ UnderEveryCap("like")
    /\ hour_of(now) = 3
    /\ is_in_quiet_period(now)

-----------------------------------------------------------------------------
\* Burst mode (SpecBurst, SpecBurstFair).

\* the step is a call of one of the given operations
StepOf(ops) == last_call'.op \in ops

\* C21. Burst mode is time-boxed and independent of the error state: after
\* enable_burst_mode the flag is true, and the timer eventually sets it to
\* false; record_action and can_perform_action never change the flag, and
\* enabling or expiring burst mode never changes consecutive_errors,
\* last_error_time or the history.
C21_BurstTimeBoxed ==
    /\ [][/\ StepOf({"enable_burst_mode"}) => burst_mode'
          /\ StepOf({"record_action", "can_perform_action"}) => burst_mode' = burst_mode
          /\ StepOf({"enable_burst_mode", "disable_burst"}) =>
                UNCHANGED <<consecutive_errors, last_error_time, actions_history>>]_vars
    /\ burst_mode ~> ~burst_mode

\* C21 witness: a timer has just switched burst mode off in a limiter that has
\* recorded failures, whose error state is still there.
C21_Witness ==
    /\ last_call.op = "disable_burst"
    /\ ~burst_mode
    /\ consecutive_errors > 0
    /\ last_error_time # None
    /\ actions_history # <<>>

\* C29. When enable_burst_mode is called again while an earlier timer is
\* pending, burst mode stays active until the duration of the most recent call
\* has elapsed.
C29_LatestBurstHonoured ==
    (burst_threads # <<>> /\ now < burst_threads[Len(burst_threads)].wakes) => burst_mode

\* C29 witness: burst mode was enabled twice, the timer of the first call has
\* run and the flag is off, and the duration of the second call is not over.
C29_Witness ==
    /\ Len(burst_threads) >= 2
    /\ burst_threads[1].pc = "done"
    /\ burst_threads[Len(burst_threads)].pc = "sleeping"
    /\ now < burst_threads[Len(burst_threads)].wakes
    /\ ~burst_mode

-----------------------------------------------------------------------------
\* The shape of the delay range (SpecPacing).

\* C30. The range returned by _calculate_dynamic_delay is always well formed,
\* min_delay <= max_delay, for every reachable activity multiplier, including
\* hours whose jittered pattern value exceeds 2.0 and burst mode, where the
\* factor (2.0 - activity_multiplier) is zero or negative.
C30_RangeWellFormed ==
    Calculated => last_call.ret.min <= last_call.ret.max

\* C30 witness: in burst mode, at an hour whose activity multiplier is above
\* 2.0, _calculate_dynamic_delay has returned a range whose lower bound is
\* above its upper bound.
C30_Witness ==
    /\ Calculated
    /\ burst_mode
    /\ get_current_activity_multiplier(daily_pattern, burst_mode, now) > 2 * ActivityUnit
    /\ last_call.ret.min > last_call.ret.max

-----------------------------------------------------------------------------
\* Queries (SpecQueries).

\* the operations that ask the limiter without recording anything
ReadOps ==
    {"can_perform_action", "_calculate_dynamic_delay", "wait_after_error",
     "get_rate_limit_status", "get_statistics"}

\* C22. can_perform_action, _calculate_dynamic_delay, wait_after_error,
\* get_rate_limit_status and get_statistics leave the history unchanged, and
\* the only state change can_perform_action makes is resetting
\* consecutive_errors to 0 when it was >= 5 and the 30-minute window has
\* elapsed; last_error_time is left unchanged.
C22_PureReads ==
    [][/\ StepOf(ReadOps) =>
             UNCHANGED <<actions_history, last_error_time, actions_log_file, limits,
                         history_maxlen, daily_pattern, burst_mode, burst_threads, alive>>
       /\ StepOf(ReadOps \ {"can_perform_action"}) => UNCHANGED consecutive_errors
       /\ StepOf({"can_perform_action"}) =>
             \/ UNCHANGED consecutive_errors
             \/ /\ consecutive_errors >= 5
                /\ last_error_time # None
                /\ now - last_error_time >= 30 * 60
                /\ consecutive_errors' = 0]_vars

\* C22 witness: a can_perform_action call has reset the counter of a limiter
\* whose last record is a failure, and last_error_time is still set.
C22_Witness ==
    /\ Checked
    /\ consecutive_errors = 0
    /\ last_error_time # None
    /\ now - last_error_time >= 30 * 60
    /\ actions_history # <<>>
    /\ ~actions_history[Len(actions_history)].success

\* the sum of the 'total' entries of the types in S
RECURSIVE SumOfTotals(_, _)
SumOfTotals(by_type, S) ==
    IF S = {} THEN 0
    ELSE LET action_type == CHOOSE x \in S : TRUE
         IN  by_type[action_type].total + SumOfTotals(by_type, S \ {action_type})

\* the count a quota entry of the status stands for, in the current state
UsedNow(key) ==
    CASE key = "hourly_actions" -> HourlyTotal
      [] key = "daily_actions" -> DailyTotal
      [] key = "hourly_likes" -> HourlyOf("like")
      [] key = "hourly_replies" -> HourlyOf("reply")
      [] key = "hourly_retweets" -> HourlyOf("retweet")

\* the current state is the one a get_statistics call has just returned in
Reported == last_call.op = "get_statistics"

\* C25. get_statistics returns a dictionary in which total_actions equals the
\* history length, for every action type total = successful + failed, the
\* per-type totals sum to total_actions, and every 'remaining' value of the
\* rate-limit status equals max(0, limit - used) and is never negative.
C25_Statistics ==
    Reported =>
        LET stats == last_call.ret
            by_type == stats.actions_by_type
            status == stats.rate_limit_status
        IN  /\ stats.total_actions = Len(actions_history)
            /\ \A action_type \in DOMAIN by_type :
                  by_type[action_type].total =
                      by_type[action_type].successful + by_type[action_type].failed
            /\ SumOfTotals(by_type, DOMAIN by_type) = stats.total_actions
            /\ ~status.empty =>
                  \A key \in DOMAIN status.quotas :
                      LET quota == status.quotas[key]
                      IN  /\ quota.used = UsedNow(key)
                          /\ quota.remaining >= 0
                          /\ quota.remaining =
                                IF quota.limit > quota.used
                                THEN quota.limit - quota.used
                                ELSE 0

\* C25 witness: get_statistics has returned for a history of successes and
\* failures in which the likes of the hour exceed their cap, so that the
\* difference limit - used is negative.
C25_Witness ==
    /\ Reported
    /\ ~last_call.ret.rate_limit_status.empty
    /\ HourlyOf("like") > limits.max_likes_per_hour
    /\ last_call.ret.rate_limit_status.quotas["hourly_likes"].remaining = 0
    /\ \E i \in DOMAIN actions_history : ~actions_history[i].success

-----------------------------------------------------------------------------
\* The order of the history (SpecRestart).

\* each record of h is at least as late as the record before it
Chronological(h) == \A i \in DOMAIN h : i > 1 => h[i].timestamp >= h[i - 1].timestamp

\* the records of h that are still in g are at the front of g, in their order
KeepsOrder(h, g) ==
    \E k \in 0..Len(h) :
        \E n \in 0..Len(g) : SubSeq(g, 1, n) = SubSeq(h, k + 1, Len(h))

-----------------------------------------------------------------------------
\* The error state (SpecErrors).

\* the step leaves an error cooldown
LeavesCooldown ==
    /\ CoolingDown
    /\ ~(/\ consecutive_errors' >= 5
         /\ last_error_time' # None
         /\ now' - last_error_time' < 30 * 60)

\* C28. In every reachable state consecutive_errors >= 0, and
\* consecutive_errors > 0 implies last_error_time is set; hence the branch of
\* can_perform_action that resets the counter because last_error_time is
\* missing while consecutive_errors >= 5 is never taken, and a cooldown is
\* never left without 30 minutes elapsing, a successful record or
\* reset_error_count.
C28_ErrorState ==
    /\ [](/\ consecutive_errors >= 0
          /\ consecutive_errors > 0 => last_error_time # None)
    /\ [][(StepOf({"can_perform_action"}) /\ consecutive_errors >= 5 /\ consecutive_errors' = 0)
             => (last_error_time # None /\ now - last_error_time >= 30 * 60)]_vars
    /\ [][LeavesCooldown =>
             \/ now' - last_error_time >= 30 * 60
             \/ last_call'.op = "record_action" /\ last_call'.success
             \/ last_call'.op = "reset_error_count"]_vars

\* C28 witness: one second before the end of a cooldown, with the counter at
\* 5 and last_error_time set, can_perform_action has denied and has left the
\* counter as it was.
C28_Witness ==
    /\ Checked /\ ~last_call.ret
    /\ consecutive_errors = 5
    /\ last_error_time # None
    /\ now - last_error_time = 30 * 60 - 1

-----------------------------------------------------------------------------
\* The next action time (SpecNextTime).

\* the current state is the one a get_next_action_time call has just returned
\* in
Asked == last_call.op = "get_next_action_time"

\* what can_perform_action would return at time t with the history and error
\* state as they are, the quiet-period draw ignored
AllowsAt(t, action_type) ==
    can_perform_action(actions_history, consecutive_errors, last_error_time, t,
                       action_type, FALSE)

\* C27. get_next_action_time(T) returns None exactly when the action can be
\* performed now, and otherwise, for a denial caused by the daily cap, the
\* global hourly cap, a per-type hourly cap or the error cooldown, a time
\* strictly in the future at which can_perform_action(T) allows (quiet-period
\* draw ignored, no further records added).
C27_NextActionTime ==
    Asked =>
        /\ AllowsAt(now, last_call.type) \/ last_call.ret # None
        /\ ~AllowsAt(now, last_call.type) =>
              /\ last_call.ret # None
              /\ last_call.ret > now
              /\ AllowsAt(last_call.ret, last_call.type)

\* C27 witness: a like recorded at 08:00:01 has used up the like cap; asked
\* at that time, get_next_action_time('like') has returned 09:00:00, when the
\* record is still within the trailing hour and can_perform_action denies.
C27_Witness ==
    /\ Asked /\ last_call.type = "like"
    /\ ~CoolingDown
    /\ HourlyTotal < limits.max_actions_per_hour
    /\ HourlyOf("like") >= limits.max_likes_per_hour
    /\ last_call.ret = next_hour(now)
    /\ ~AllowsAt(last_call.ret, "like")

-----------------------------------------------------------------------------
\* The orchestrator and the caps (SpecBot).

\* the current state is the one an engagement has just been recorded in
Engaged == last_call.op = "engage_with_tweet"

\* the recorded actions of the trailing hour are within the global hourly cap
\* and, for each tracked type, within the type's hourly cap
WithinHourlyCaps ==
    /\ HourlyTotal <= limits.max_actions_per_hour
    /\ \A action_type \in TrackedTypes : HourlyOf(action_type) <= CapOf(action_type)

\* C24. In the orchestrator's engagement loop an action of type T is
\* performed and recorded only after can_perform_action(T) returned True for
\* that type since the previous record; consequently the recorded actions of
\* any trailing hour never exceed max_actions_per_hour, nor those of a tracked
\* type the type's hourly cap.
C24_OrchestratorWithinCaps ==
    /\ [][StepOf({"engage_with_tweet"}) => last_call'.ret \subseteq bot.allowed]_vars
    /\ [](WithinHourlyCaps)

\* C24 witness: the check before an engagement allowed a reply only, the like
\* cap being used up; the engagement performed a like and a reply, both were
\* recorded, and the likes of the hour and the actions of the hour are above
\* their caps.
C24_Witness ==
    /\ Engaged
    /\ last_call.ret = {"like", "reply"}
    /\ HourlyOf("like") > limits.max_likes_per_hour
    /\ HourlyTotal > limits.max_actions_per_hour

-----------------------------------------------------------------------------
\* The orchestrator after an error cooldown (SpecBotFair).

\* the error counter is at the cooldown threshold and the 30 minutes since
\* the last error are over
CooldownOver ==
    /\ consecutive_errors >= 5
    /\ last_error_time # None
    /\ now - last_error_time >= 30 * 60

\* C26. Under the orchestrator loop, once the consecutive-error count has
\* reached the cooldown threshold the bot does not stay blocked forever: after
\* the 30-minute window has elapsed the counter is eventually reset to 0 by a
\* can_perform_action call, and a later cycle passes the health check.
C26_CooldownEnds == CooldownOver ~> (consecutive_errors = 0)

\* C26 witness: more than 30 minutes after the fifth consecutive failure the
\* health check has failed, the counter still at 5.
C26_Witness ==
    /\ last_call.op = "_perform_health_check" /\ ~last_call.ret
    /\ CooldownOver
    /\ bot.pc = "after_error"

====
